---- MODULE Spec2Model ----
(***************************************************************************)
(* Stealth and AI behaviour engine of oneshot-hm2016:                      *)
(*   StealthSystem (src/unnamed/part_000), EnemyAI (src/js/EnemyAI.js),    *)
(*   WeaponSystem.shoot / handleEnemyHit (src/js/WeaponSystem.js),         *)
(*   PlayerController.takeDamage (src/js/PlayerController.js),             *)
(*   Game.updateGame (src/js/main.js).                                     *)
(*                                                                         *)
(* Units.  All quantities are exact integers:                              *)
(*   alertLevel      1.0 = LevelScale                                      *)
(*   time            1 = 100 ms (deltaTime, timers, sound age)             *)
(*   distance        1 = 0.1 m                                             *)
(*   angle           1 = pi/6 (detectionAngle = pi/3 = 2)                  *)
(*   health          1 = half a health point (2.5 x 45 is then integral)   *)
(*   loudness        1 = 0.1                                               *)
(*                                                                         *)
(* Geometry.  Positions are named points.  The continuous geometry of the  *)
(* scene (Vector3.distanceTo, Math.acos, Raycaster.intersectObjects,       *)
(* Math.random) is not computed: each tick draws, per enemy, the answers   *)
(* of these queries from a bounded set (a "geometry").  Fields of EnemyAI  *)
(* that only steer the mesh (position, rotation, velocity, coverTime,      *)
(* patrol cursor) are therefore not part of this state.                    *)
(***************************************************************************)
EXTENDS Integers, Sequences, FiniteSets, TLC

\* ------------------------------------------------------------------ state

VARIABLES
    enemies,           \* Game.enemies: sequence of EnemyAI records
    player,            \* PlayerController: isAlive, health
    soundSources,      \* StealthSystem.soundSources
    globalAlertState,  \* StealthSystem.globalAlertState
    globalAlertLevel,  \* StealthSystem.globalAlertLevel
    detectionMeter,    \* the value getDetectionMeter returned in the last tick
    shots,             \* the EnemyAI.shoot calls of the last tick
    lastOp,            \* the last operation, its arguments and returned value
    visionCones,       \* StealthSystem.visionCones: the enemy ids with an entry
    probe              \* the last query of a pure function and its answer

vars == <<enemies, player, soundSources, globalAlertState, globalAlertLevel,
          detectionMeter, shots, lastOp, visionCones, probe>>

\* ------------------------------------------------------------------ units

LevelScale == 10 * 240 * 4 * 40 * 2 * 10

Min(a, b) == IF a < b THEN a ELSE b
Max(a, b) == IF a > b THEN a ELSE b

\* -------------------------------------------------------------- constants

IDLE == "IDLE"
SUSPICIOUS == "SUSPICIOUS"
ALERTED == "ALERTED"
COMBAT == "COMBAT"
AlertState == {IDLE, SUSPICIOUS, ALERTED, COMBAT}

\* StealthSystem constructor: thresholds 0.3 / 0.7 / 1.0
suspiciousThreshold == (3 * LevelScale) \div 10
alertedThreshold == (7 * LevelScale) \div 10
combatThreshold == LevelScale

\* StealthSystem.detectionSpeed, in tenths: 0.5 / 0.8 / 1.2 / 2.0
detectionSpeed(state) ==
    CASE state = IDLE -> 5
      [] state = SUSPICIOUS -> 8
      [] state = ALERTED -> 12
      [] state = COMBAT -> 20

\* EnemyAI constructor
guardDetectionRange == 120
targetDetectionRange == 80
detectionAngle == 2
guardHealth == 200
targetHealth == 100
shootInterval == 8
shootRange == 200
enemyDamage == 10
investigateDuration == 50
searchDuration == 100
\* alertDecayRate 0.15 per second, as level per time unit
patrolWaitDuration == 20
\* distances (0.1 m): a patrol point counts as reached below 0.5 m, a
\* last-known position is walked to from beyond 1 m
patrolReach == 5
lookAroundRange == 10
alertDecayRate == (15 * LevelScale) \div 1000
\* search(): this.alertLevel -= 0.3
searchCalmDown == (3 * LevelScale) \div 10
\* update(): Math.max(this.alertLevel, 0.5); combat(): this.alertLevel = 0.5
gunshotAlert == LevelScale \div 2
lostTargetAlert == LevelScale \div 2
\* hasLineOfSight(): intersect.distance < distance - 0.1
sightTolerance == 1
\* registerSound / checkSoundDetection
soundTravel == 20
pruneAge == 30
audibleAge == 20
\* PlayerController constructor
playerMaxHealth == 100

NoPos == "none"
Positions == {"A"}

\* WeaponSystem.weapons: damage in half points, headshotMultiplier in halves,
\* loudness registered by shoot() in tenths
Weapons == {"silenced", "pistol"}
WeaponDamage(w) == IF w = "silenced" THEN 70 ELSE 90
WeaponHeadshotMultiplier2(w) == IF w = "silenced" THEN 6 ELSE 5
WeaponLoudness(w) == IF w = "silenced" THEN 3 ELSE 10

\* ----------------------------------------------------------------- bounds

\* the registry holds at most MaxSounds entries
MaxSounds == 1
\* alertLevel is explored up to MaxAlert x 1.0
MaxAlert == 2

\* ------------------------------------------------------ the player's side

\* PlayerController.getVisibilityMultiplier, in 1/40
getVisibilityMultiplier(pl) ==
    LET m1 == IF pl.isCrouching THEN 40 \div 2 ELSE 40
        m2 == IF pl.isRunning THEN (m1 * 3) \div 2 ELSE m1
    IN  IF ~pl.isMoving THEN (m2 * 7) \div 10 ELSE m2

\* PlayerController.takeDamage / die
PlayerTakeDamage(pl, amount) ==
    IF ~pl.isAlive THEN pl
    ELSE IF pl.health - amount <= 0
         THEN [pl EXCEPT !.health = 0, !.isAlive = FALSE]
         ELSE [pl EXCEPT !.health = pl.health - amount]

\* LevelBuilder light and dark zones, as sets of the named points
LightZone == {}
DarkZone == {}

\* LevelBuilder.getLightingModifier, in halves: 1.5 / 0.5 / 1.0
getLightingModifier(position) ==
    IF position \in LightZone THEN 3
    ELSE IF position \in DarkZone THEN 1
    ELSE 2

\* ---------------------------------------------------------- StealthSystem

\* getStateFromLevel with the thresholds themselves left to the lower state
getStateFromLevelAbove(level) ==
    IF level > combatThreshold THEN COMBAT
    ELSE IF level > alertedThreshold THEN ALERTED
    ELSE IF level > suspiciousThreshold THEN SUSPICIOUS
    ELSE IDLE

\* StealthSystem.getStateFromLevel
getStateFromLevel(level) ==
    IF level >= combatThreshold THEN COMBAT
    ELSE IF level >= alertedThreshold THEN ALERTED
    ELSE IF level >= suspiciousThreshold THEN SUSPICIOUS
    ELSE IDLE

\* StealthSystem.hasLineOfSight: hits are the distances at which the ray from
\* the observer's eye meets a mesh that is neither isEnemy nor isPlayer;
\* raycaster.far = distance keeps those up to the target
hasLineOfSight(distance, hits) ==
    \A h \in {x \in hits : x <= distance} : ~(h < distance - sightTolerance)

detectionRange(en) ==
    IF en.isTarget THEN targetDetectionRange ELSE guardDetectionRange

\* StealthSystem.checkDetection: the amount to add to alertLevel
checkDetection(en, pl, deltaTime, g) ==
    LET distance == g.d[pl.position]
        range == detectionRange(en)
    IN  IF ~pl.isAlive THEN 0
        ELSE IF distance > range THEN 0
        ELSE IF g.angle > detectionAngle THEN 0
        ELSE IF ~hasLineOfSight(distance, g.hits) THEN 0
        ELSE detectionSpeed(en.alertState)
             * ((2 * range - distance) * (240 \div range))
             * (2 * detectionAngle - g.angle)
             * getVisibilityMultiplier(pl)
             * getLightingModifier(pl.position)
             * deltaTime

\* checkDetection when raycaster.intersectObjects raises in hasLineOfSight:
\* the call is reached past the life, range and angle tests, and neither
\* hasLineOfSight, checkDetection, EnemyAI.update nor Game.updateGame
\* catches, so the exception leaves checkDetection and the agent's tick
checkDetectionThrows(en, pl, g, rayFails) ==
    /\ pl.isAlive
    /\ ~(g.d[pl.position] > detectionRange(en))
    /\ ~(g.angle > detectionAngle)
    /\ rayFails

\* faulty variant: the clean-up drops what is at the end of the audible window
registerSoundEager(sounds, position, loudness, type) ==
    SelectSeq(Append(sounds, [position |-> position, loudness |-> loudness,
                              type |-> type, age |-> 0,
                              radius |-> loudness * soundTravel]),
              LAMBDA s : s.age < audibleAge)

\* StealthSystem.registerSound: age stands for Date.now() - time
registerSound(sounds, position, loudness, type) ==
    SelectSeq(Append(sounds, [position |-> position, loudness |-> loudness,
                              type |-> type, age |-> 0,
                              radius |-> loudness * soundTravel]),
              LAMBDA s : s.age < pruneAge)

NoSound == [position |-> NoPos, loudness |-> 0, type |-> "none"]

\* the sounds a listener at the given distances can hear, in registry order;
\* loudness is the effective loudness in 1/6000
HeardSounds(sounds, d) ==
    LET audible(s) == ~(s.age > audibleAge) /\ ~(d[s.position] > s.radius)
        heard(s) == [position |-> s.position,
                     loudness |-> s.loudness * (s.radius - d[s.position])
                                  * (600 \div s.radius),
                     type |-> s.type]
        RECURSIVE collect(_)
        collect(i) == IF i > Len(sounds) THEN <<>>
                      ELSE IF audible(sounds[i])
                           THEN <<heard(sounds[i])>> \o collect(i + 1)
                           ELSE collect(i + 1)
    IN  collect(1)

\* StealthSystem.checkSoundDetection: the stable descending sort puts the
\* first entry of greatest loudness at index 0
checkSoundDetection(sounds, d) ==
    LET hs == HeardSounds(sounds, d)
    IN  IF Len(hs) = 0 THEN NoSound
        ELSE hs[CHOOSE i \in 1..Len(hs) :
                  /\ \A j \in 1..Len(hs) : hs[j].loudness <= hs[i].loudness
                  /\ \A j \in 1..(i - 1) : hs[j].loudness < hs[i].loudness]

\* faulty variant: highestLevel is not raised with highestState
RECURSIVE HighestFromStale(_, _, _, _)
HighestFromStale(ens, i, highestState, highestLevel) ==
    IF i > Len(ens) THEN <<highestState, highestLevel>>
    ELSE IF ens[i].alertLevel > highestLevel
         THEN HighestFromStale(ens, i + 1, ens[i].alertState, highestLevel)
         ELSE HighestFromStale(ens, i + 1, highestState, highestLevel)

\* StealthSystem.updateGlobalAlert: <<state, level>>
RECURSIVE HighestFrom(_, _, _, _)
HighestFrom(ens, i, highestState, highestLevel) ==
    IF i > Len(ens) THEN <<highestState, highestLevel>>
    ELSE IF ens[i].alertLevel > highestLevel
         THEN HighestFrom(ens, i + 1, ens[i].alertState, ens[i].alertLevel)
         ELSE HighestFrom(ens, i + 1, highestState, highestLevel)

\* faulty variant: the level found is added to the stored level
updateGlobalAlertAdds(ens) ==
    LET highest == HighestFrom(ens, 1, IDLE, 0)
    IN  <<highest[1], globalAlertLevel + highest[2]>>

updateGlobalAlert(ens) == HighestFrom(ens, 1, IDLE, 0)

\* StealthSystem.getDetectionMeter
RECURSIVE MaxDetectionFrom(_, _, _)
MaxDetectionFrom(ens, i, maxDetection) ==
    IF i > Len(ens) THEN maxDetection
    ELSE IF ens[i].alertLevel > maxDetection
         THEN MaxDetectionFrom(ens, i + 1, ens[i].alertLevel)
         ELSE MaxDetectionFrom(ens, i + 1, maxDetection)

getDetectionMeterUnclamped(ens) == MaxDetectionFrom(ens, 1, 0)

getDetectionMeter(ens) == Min(LevelScale, MaxDetectionFrom(ens, 1, 0))

\* StealthSystem.createVisionCone(enemy): the registry gains an entry under
\* the enemy's id (the meshes of the cone are not modelled)
createVisionCone(cones, id) == cones \cup {id}

\* faulty variant: the level is assigned, not raised
alertAllEnemiesAssign(ens, position, alertLevel) ==
    [i \in 1..Len(ens) |->
        [ens[i] EXCEPT !.lastKnownPlayerPos = position,
                       !.alertLevel = alertLevel,
                       !.alertState = getStateFromLevel(alertLevel)]]

\* StealthSystem.alertAllEnemies
alertAllEnemies(ens, position, alertLevel) ==
    [i \in 1..Len(ens) |->
        LET level == Max(ens[i].alertLevel, alertLevel)
        IN  [ens[i] EXCEPT !.lastKnownPlayerPos = position,
                           !.alertLevel = level,
                           !.alertState = getStateFromLevel(level)]]

\* ---------------------------------------------------------------- EnemyAI

\* EnemyAI constructor
NewEnemy(isTarget) ==
    [isTarget |-> isTarget,
     isAlive |-> TRUE,
     health |-> IF isTarget THEN targetHealth ELSE guardHealth,
     alertLevel |-> 0,
     alertState |-> IDLE,
     lastKnownPlayerPos |-> NoPos,
     investigateTime |-> 0,
     searchTime |-> 0,
     shootCooldown |-> 0]

\* EnemyAI.patrol: changes position, rotation and the patrol timers only
patrol(en, deltaTime) == en

\* EnemyAI.investigate
investigate(en, deltaTime) ==
    IF en.lastKnownPlayerPos = NoPos THEN patrol(en, deltaTime)
    ELSE LET t == en.investigateTime + deltaTime
         IN  IF t > investigateDuration
             THEN [en EXCEPT !.investigateTime = 0,
                             !.lastKnownPlayerPos = NoPos,
                             !.alertLevel = 0]
             ELSE [en EXCEPT !.investigateTime = t]

\* faulty variant: the search time-out also forgets the last-known position
searchForgetful(en, deltaTime) ==
    LET t == en.searchTime + deltaTime
    IN  IF t > searchDuration
        THEN [en EXCEPT !.searchTime = 0,
                        !.lastKnownPlayerPos = NoPos,
                        !.alertLevel = en.alertLevel - searchCalmDown]
        ELSE [en EXCEPT !.searchTime = t]

\* faulty variant: the search ends on reaching the duration
searchEager(en, deltaTime) ==
    LET t == en.searchTime + deltaTime
    IN  IF t >= searchDuration
        THEN [en EXCEPT !.searchTime = 0,
                        !.alertLevel = en.alertLevel - searchCalmDown]
        ELSE [en EXCEPT !.searchTime = t]

\* EnemyAI.search
search(en, deltaTime) ==
    LET t == en.searchTime + deltaTime
    IN  IF t > searchDuration
        THEN [en EXCEPT !.searchTime = 0,
                        !.alertLevel = en.alertLevel - searchCalmDown]
        ELSE [en EXCEPT !.searchTime = t]

\* The movement side of the behaviours. st holds the patrol fields
\* (routeLength = patrolRoute.length, currentPatrolIndex, patrolWaitTime) and
\* what the call did: moved (moveTowards was called), indexed (patrolRoute
\* was subscripted), turned (rotation was changed), ranPatrol (patrol ran);
\* distance is position.distanceTo(target) for the target the call aims at

\* faulty variant: the empty route is not set apart
patrolSteerUnchecked(st, deltaTime, distance) ==
    LET s1 == [st EXCEPT !.ranPatrol = TRUE]
    IN  IF s1.patrolWaitTime > 0
        THEN [s1 EXCEPT !.patrolWaitTime = s1.patrolWaitTime - deltaTime,
                        !.turned = TRUE]
        ELSE IF distance < patrolReach
             THEN [s1 EXCEPT !.indexed = TRUE,
                             !.currentPatrolIndex =
                                 IF s1.routeLength = 0 THEN 0
                                 ELSE (s1.currentPatrolIndex + 1)
                                          % s1.routeLength,
                             !.patrolWaitTime = patrolWaitDuration]
             ELSE [s1 EXCEPT !.indexed = TRUE, !.moved = TRUE]

\* faulty variant: the cursor is advanced without wrapping around
patrolSteerPastEnd(st, deltaTime, distance) ==
    LET s1 == [st EXCEPT !.ranPatrol = TRUE]
    IN  IF s1.routeLength = 0 THEN [s1 EXCEPT !.turned = TRUE]
        ELSE IF s1.patrolWaitTime > 0
             THEN [s1 EXCEPT !.patrolWaitTime = s1.patrolWaitTime - deltaTime,
                             !.turned = TRUE]
             ELSE IF distance < patrolReach
                  THEN [s1 EXCEPT !.indexed = TRUE,
                                  !.currentPatrolIndex =
                                      s1.currentPatrolIndex + 1,
                                  !.patrolWaitTime = patrolWaitDuration]
                  ELSE [s1 EXCEPT !.indexed = TRUE, !.moved = TRUE]

\* EnemyAI.patrol
patrolSteer(st, deltaTime, distance) ==
    LET s1 == [st EXCEPT !.ranPatrol = TRUE]
    IN  IF s1.routeLength = 0 THEN [s1 EXCEPT !.turned = TRUE]
        ELSE IF s1.patrolWaitTime > 0
             THEN [s1 EXCEPT !.patrolWaitTime = s1.patrolWaitTime - deltaTime,
                             !.turned = TRUE]
             ELSE IF distance < patrolReach
                  THEN [s1 EXCEPT !.indexed = TRUE,
                                  !.currentPatrolIndex =
                                      (s1.currentPatrolIndex + 1)
                                          % s1.routeLength,
                                  !.patrolWaitTime = patrolWaitDuration]
                  ELSE [s1 EXCEPT !.indexed = TRUE, !.moved = TRUE]

\* EnemyAI.investigate
investigateSteer(st, en, deltaTime, distance) ==
    IF en.lastKnownPlayerPos = NoPos THEN patrolSteer(st, deltaTime, distance)
    ELSE IF distance > lookAroundRange THEN [st EXCEPT !.moved = TRUE]
         ELSE [st EXCEPT !.turned = TRUE]

\* EnemyAI.search
searchSteer(st, en, deltaTime, distance) ==
    IF en.lastKnownPlayerPos # NoPos
    THEN IF distance > lookAroundRange THEN [st EXCEPT !.moved = TRUE]
         ELSE [st EXCEPT !.turned = deltaTime > 0]
    ELSE st

\* EnemyAI.shoot: roll is the outcome of Math.random() < hitChance
\* (0 < hitChance < 1 at every distance up to shootRange)
shoot(en, pl, roll) ==
    [enemy |-> [en EXCEPT !.shootCooldown = shootInterval],
     player |-> IF roll THEN PlayerTakeDamage(pl, enemyDamage) ELSE pl,
     shots |-> {[isAlive |-> en.isAlive, alertState |-> en.alertState,
                 playerAlive |-> pl.isAlive, isTarget |-> en.isTarget]}]

\* faulty variant: the high-value target is not exempted
MayShootAnyone(en) == en.shootCooldown <= 0

\* the guard of the two shoot() calls in combat()
MayShoot(en) == en.shootCooldown <= 0 /\ ~en.isTarget

\* EnemyAI.combat
combat(en, pl, deltaTime, g) ==
    IF ~pl.isAlive
    THEN [enemy |-> [en EXCEPT !.alertLevel = lostTargetAlert],
          player |-> pl, shots |-> {}]
    ELSE LET e1 == [en EXCEPT !.lastKnownPlayerPos = pl.position]
             distance == g.d[pl.position]
         IN  IF distance > shootRange
             THEN [enemy |-> e1, player |-> pl, shots |-> {}]
             ELSE IF MayShoot(e1)
                  THEN shoot(e1, pl, g.roll)
                  ELSE [enemy |-> e1, player |-> pl, shots |-> {}]

\* faulty variant: the decay step is missing
DecayNever(en, deltaTime) == en.alertLevel

\* faulty variant: the decay does not spare COMBAT
DecayInCombat(en, deltaTime) ==
    IF en.alertLevel > 0
    THEN Max(en.alertLevel - alertDecayRate * deltaTime, 0)
    ELSE en.alertLevel

\* faulty variant: the decay is not floored at zero
DecayUnfloored(en, deltaTime) ==
    IF en.alertLevel > 0 /\ en.alertState # COMBAT
    THEN en.alertLevel - alertDecayRate * deltaTime
    ELSE en.alertLevel

\* the decay step of EnemyAI.update
Decay(en, deltaTime) ==
    IF en.alertLevel > 0 /\ en.alertState # COMBAT
    THEN Max(en.alertLevel - alertDecayRate * deltaTime, 0)
    ELSE en.alertLevel

\* the behaviour switch of EnemyAI.update
Behave(en, pl, deltaTime, g) ==
    CASE en.alertState = IDLE ->
           [enemy |-> patrol(en, deltaTime), player |-> pl, shots |-> {}]
      [] en.alertState = SUSPICIOUS ->
           [enemy |-> investigate(en, deltaTime), player |-> pl, shots |-> {}]
      [] en.alertState = ALERTED ->
           [enemy |-> search(en, deltaTime), player |-> pl, shots |-> {}]
      [] en.alertState = COMBAT -> combat(en, pl, deltaTime, g)

\* EnemyAI.update past its isAlive test: decay, sight, sound, the state
\* and its behaviour, the cooldown
updateLiving(en, pl, deltaTime, g, sounds) ==
    LET level1 == Decay(en, deltaTime)
        detectionAmount == checkDetection(en, pl, deltaTime, g)
        level2 == IF detectionAmount > 0 THEN level1 + detectionAmount
                  ELSE level1
        pos2 == IF detectionAmount > 0 THEN pl.position
                ELSE en.lastKnownPlayerPos
        sound == checkSoundDetection(sounds, g.d)
        heard == sound # NoSound /\ sound.type = "gunshot"
        level3 == IF heard THEN Max(level2, gunshotAlert) ELSE level2
        pos3 == IF heard /\ pos2 = NoPos THEN sound.position ELSE pos2
        e3 == [en EXCEPT !.alertLevel = level3,
                         !.lastKnownPlayerPos = pos3,
                         !.alertState = getStateFromLevel(level3)]
        r == Behave(e3, pl, deltaTime, g)
    IN  [r EXCEPT !.enemy.shootCooldown =
                     IF r.enemy.shootCooldown > 0
                     THEN r.enemy.shootCooldown - deltaTime
                     ELSE r.enemy.shootCooldown]

\* EnemyAI.update
update(en, pl, deltaTime, g, sounds) ==
    IF ~en.isAlive THEN [enemy |-> en, player |-> pl, shots |-> {}]
    ELSE updateLiving(en, pl, deltaTime, g, sounds)

\* faulty variant: a dead enemy is damaged again
takeDamageAgain(en, amount, isHeadshot) ==
    LET dealt == IF isHeadshot THEN amount * 2 ELSE amount
        e1 == [en EXCEPT !.health = en.health - dealt]
    IN  IF e1.health <= 0
        THEN <<[e1 EXCEPT !.isAlive = FALSE], TRUE>>
        ELSE <<[e1 EXCEPT !.alertLevel = LevelScale,
                          !.alertState = COMBAT], FALSE>>

\* faulty variant: a survivor's alertLevel is raised to 1.0, never lowered
takeDamageRaise(en, amount, isHeadshot) ==
    IF ~en.isAlive THEN <<en, FALSE>>
    ELSE LET dealt == IF isHeadshot THEN amount * 2 ELSE amount
             e1 == [en EXCEPT !.health = en.health - dealt]
         IN  IF e1.health <= 0
             THEN <<[e1 EXCEPT !.isAlive = FALSE], TRUE>>
             ELSE <<[e1 EXCEPT !.alertLevel = Max(en.alertLevel, LevelScale),
                               !.alertState = COMBAT], FALSE>>

\* EnemyAI.takeDamage / die: <<enemy, returned value>>
takeDamage(en, amount, isHeadshot) ==
    IF ~en.isAlive THEN <<en, FALSE>>
    ELSE LET dealt == IF isHeadshot THEN amount * 2 ELSE amount
             e1 == [en EXCEPT !.health = en.health - dealt]
         IN  IF e1.health <= 0
             THEN <<[e1 EXCEPT !.isAlive = FALSE], TRUE>>
             ELSE <<[e1 EXCEPT !.alertLevel = LevelScale,
                               !.alertState = COMBAT], FALSE>>

\* WeaponSystem.handleEnemyHit up to the takeDamage call: the damage passed
handleEnemyHitDamage(w, isHeadshot) ==
    IF isHeadshot THEN (WeaponDamage(w) * WeaponHeadshotMultiplier2(w)) \div 2
    ELSE WeaponDamage(w)

\* ----------------------------------------------------------------- inputs

\* frame times handed to Game.updateGame
DeltaTimes == {0, 25}
\* wall-clock time that passes while no frame is simulated (pause)
StallTimes == {10}
\* the player's posture flags set by PlayerController.update
Postures ==
    {[isCrouching |-> FALSE, isMoving |-> TRUE, isRunning |-> FALSE]}
\* distances from an enemy to the named points
Distances == {50, 250}
\* one enemy's geometry in one tick: distance to each point, angle between
\* its forward vector and the player (the edge of the cone), ray hits, and
\* the hit roll; the player is far off, or near and occluded, or near and in
\* plain sight, and a hit roll is drawn only where shoot() can be reached
Geometries ==
    {g \in [d : [Positions -> Distances], angle : {detectionAngle},
            hits : {{}, {20}}, roll : BOOLEAN] :
        LET far == \E p \in Positions : g.d[p] > shootRange
        IN  far => (g.hits = {} /\ ~g.roll)}
\* the weapon in hand (currentWeaponIndex = 0 at construction)
CarriedWeapons == {"silenced"}
\* the level argument of alertAllEnemies (default 0.5)
AlertAllLevels == {LevelScale \div 2}

\* lastOp: "tick" for Game.updateGame; "takeDamage" with the enemy hit, the
\* amount and headshot flag passed, whether the enemy was alive and whether
\* its alertLevel was above 1.0 at the call, and the returned value; every
\* other operation is "other"
Op(op, enemy, amount, isHeadshot, wasAlive, wasAbove, ret) ==
    [op |-> op, enemy |-> enemy, amount |-> amount, isHeadshot |-> isHeadshot,
     wasAlive |-> wasAlive, wasAbove |-> wasAbove, ret |-> ret]
OtherOp == Op("other", 0, 0, FALSE, FALSE, FALSE, FALSE)
TickOp == Op("tick", 0, 0, FALSE, FALSE, FALSE, FALSE)
\* "alertAll" with the position and level passed to alertAllEnemies
AlertAllOp(position, level) ==
    [op |-> "alertAll", position |-> position, level |-> level]

\* probe: no pure function has been queried
NoProbe == [op |-> "none"]

\* ------------------------------------------------------------------- Init

InitWith(ens) ==
    /\ enemies = ens
    /\ player = [isAlive |-> TRUE, health |-> playerMaxHealth]
    /\ soundSources = <<>>
    /\ globalAlertState = IDLE
    /\ globalAlertLevel = 0
    /\ detectionMeter = 0
    /\ shots = {}
    /\ lastOp = OtherOp
    /\ visionCones = UNION {createVisionCone({}, i) : i \in 1..Len(ens)}

\* one enemy: a guard, or the high-value target
Init ==
    /\ \E isTarget \in BOOLEAN : InitWith(<<NewEnemy(isTarget)>>)
    /\ probe = NoProbe

\* ---------------------------------------------------------------- actions

\* Date.now() advances by d: every registered sound is d older
Older(sounds, d) ==
    [i \in 1..Len(sounds) |->
        [sounds[i] EXCEPT !.age = Min(sounds[i].age + d, pruneAge)]]

\* faulty variant: neither the loop nor update looks at isAlive
RECURSIVE UpdateEnemiesFromDead(_, _, _, _, _, _, _)
UpdateEnemiesFromDead(ens, i, pl, fired, deltaTime, gs, sounds) ==
    IF i > Len(ens) THEN [enemies |-> ens, player |-> pl, shots |-> fired]
    ELSE LET r == updateLiving(ens[i], pl, deltaTime, gs[i], sounds)
         IN  UpdateEnemiesFromDead([ens EXCEPT ![i] = r.enemy], i + 1,
                                   r.player,
                                   fired \cup {[enemy |-> i, shot |-> x] :
                                                 x \in r.shots},
                                   deltaTime, gs, sounds)

\* the loop over this.enemies in Game.updateGame
RECURSIVE UpdateEnemiesFrom(_, _, _, _, _, _, _)
UpdateEnemiesFrom(ens, i, pl, fired, deltaTime, gs, sounds) ==
    IF i > Len(ens) THEN [enemies |-> ens, player |-> pl, shots |-> fired]
    ELSE IF ens[i].isAlive
         THEN LET r == update(ens[i], pl, deltaTime, gs[i], sounds)
              IN  UpdateEnemiesFrom([ens EXCEPT ![i] = r.enemy], i + 1,
                                    r.player,
                                    fired \cup {[enemy |-> i, shot |-> x] :
                                                  x \in r.shots},
                                    deltaTime, gs, sounds)
         ELSE UpdateEnemiesFrom(ens, i + 1, pl, fired, deltaTime, gs, sounds)

\* Game.updateGame(deltaTime): player.update, the enemies, the aggregation
updateGame(deltaTime, position, posture, gs) ==
    LET pl == [isAlive |-> player.isAlive, health |-> player.health,
               position |-> position,
               isCrouching |-> posture.isCrouching,
               isMoving |-> posture.isMoving,
               isRunning |-> posture.isRunning]
        sounds == Older(soundSources, deltaTime)
    IN  \E r \in {UpdateEnemiesFrom(enemies, 1, pl, {}, deltaTime, gs, sounds)} :
        \E global \in {updateGlobalAlert(r.enemies)} :
        /\ \A i \in 1..Len(enemies) :
              r.enemies[i].alertLevel <= MaxAlert * LevelScale
        /\ enemies' = r.enemies
        /\ player' = [isAlive |-> r.player.isAlive, health |-> r.player.health]
        /\ soundSources' = sounds
        /\ globalAlertState' = global[1]
        /\ globalAlertLevel' = global[2]
        /\ detectionMeter' = getDetectionMeter(r.enemies)
        /\ shots' = r.shots
        /\ lastOp' = TickOp
        /\ UNCHANGED visionCones

\* a frame of the game loop in the Playing state
Tick(deltaTime, position, posture, gs) ==
    /\ updateGame(deltaTime, position, posture, gs)
    /\ probe' = NoProbe

\* WeaponSystem.shoot with the ray missing every enemy mesh
PlayerShootMiss(w, position) ==
    LET sounds == registerSound(soundSources, position, WeaponLoudness(w),
                                "gunshot")
    IN  /\ player.isAlive
        /\ Len(sounds) <= MaxSounds
        /\ soundSources' = sounds
        /\ shots' = {}
        /\ lastOp' = OtherOp
        /\ probe' = NoProbe
        /\ UNCHANGED <<visionCones, enemies, player, globalAlertState,
                       globalAlertLevel,
                       detectionMeter>>

\* WeaponSystem.shoot with the ray hitting a mesh of enemy i:
\* performRaycast -> handleEnemyHit -> EnemyAI.takeDamage
PlayerShootHit(w, position, i, isHeadshot) ==
    LET sounds == registerSound(soundSources, position, WeaponLoudness(w),
                                "gunshot")
        damage == handleEnemyHitDamage(w, isHeadshot)
        r == takeDamage(enemies[i], damage, isHeadshot)
    IN  /\ player.isAlive
        /\ Len(sounds) <= MaxSounds
        /\ soundSources' = sounds
        /\ enemies' = [enemies EXCEPT ![i] = r[1]]
        /\ shots' = {}
        /\ lastOp' = Op("takeDamage", i, damage, isHeadshot,
                        enemies[i].isAlive,
                        enemies[i].alertLevel > LevelScale, r[2])
        /\ probe' = NoProbe
        /\ UNCHANGED <<visionCones, player, globalAlertState,
                       globalAlertLevel,
                       detectionMeter>>

\* StealthSystem.alertAllEnemies(this.enemies, position, level)
AlertAll(position, level) ==
    /\ enemies' = alertAllEnemies(enemies, position, level)
    /\ shots' = {}
    /\ lastOp' = AlertAllOp(position, level)
    /\ probe' = NoProbe
    /\ UNCHANGED <<visionCones, player, soundSources, globalAlertState,
                   globalAlertLevel,
                   detectionMeter>>

\* time passes while the game loop does not simulate
Stall(d) ==
    /\ soundSources # <<>>
    /\ soundSources' = Older(soundSources, d)
    /\ shots' = {}
    /\ lastOp' = OtherOp
    /\ probe' = NoProbe
    /\ UNCHANGED <<visionCones, enemies, player, globalAlertState,
                       globalAlertLevel,
                   detectionMeter>>

Next ==
    \/ \E dt \in DeltaTimes, p \in Positions, posture \in Postures,
          gs \in [1..Len(enemies) -> Geometries] : Tick(dt, p, posture, gs)
    \/ \E w \in CarriedWeapons, p \in Positions : PlayerShootMiss(w, p)
    \/ \E w \in CarriedWeapons, p \in Positions, i \in 1..Len(enemies),
          h \in BOOLEAN : PlayerShootHit(w, p, i, h)
    \/ \E p \in Positions, l \in AlertAllLevels : AlertAll(p, l)

Spec == Init /\ [][Next]_vars

\* ------------------------------------------ the stealth system's queries

\* checkDetection is queried once with inputs drawn at the start: the
\* observer's state, the player's posture and life, the frame time, the
\* geometry between the two and whether the raycaster raises; probe records
\* the returned amount, or that the call threw. Of the meshes the ray meets
\* (hits), obstacles are those of the level; the others are what
\* scene.traverse also collects because only an enemy's body and head carry
\* isEnemy: the vision cones and the limbs, hats and weapons of agents
DetectDistances == {50, 80, 120, 130}
DetectHits == SUBSET {20, 49, 119}
DetectPostures ==
    {[isCrouching |-> FALSE, isMoving |-> TRUE, isRunning |-> FALSE],
     [isCrouching |-> TRUE, isMoving |-> FALSE, isRunning |-> FALSE]}

InitDetect ==
    \E isTarget \in BOOLEAN, state \in AlertState, alive \in BOOLEAN,
       posture \in DetectPostures, dt \in DeltaTimes,
       d \in [Positions -> DetectDistances], angle \in {0, 2, 3},
       hits \in DetectHits, p \in Positions, rayFails \in BOOLEAN :
        \E obstacles \in SUBSET hits :
        /\ InitWith(<<[NewEnemy(isTarget) EXCEPT
                         !.alertState = state,
                         !.alertLevel =
                             CASE state = IDLE -> 0
                               [] state = SUSPICIOUS -> suspiciousThreshold
                               [] state = ALERTED -> alertedThreshold
                               [] state = COMBAT -> combatThreshold]>>)
        /\ probe = [op |-> "checkDetection", done |-> FALSE, out |-> 0,
                    threw |-> FALSE, rayFails |-> rayFails,
                    obstacles |-> obstacles,
                    deltaTime |-> dt,
                    player |-> [isAlive |-> alive, position |-> p,
                                isCrouching |-> posture.isCrouching,
                                isMoving |-> posture.isMoving,
                                isRunning |-> posture.isRunning],
                    g |-> [d |-> d, angle |-> angle, hits |-> hits,
                           roll |-> FALSE]]

\* StealthSystem.checkDetection(enemy, player, deltaTime)
CheckDetection ==
    /\ probe.op = "checkDetection"
    /\ ~probe.done
    /\ \E threw \in {checkDetectionThrows(enemies[1], probe.player, probe.g,
                                           probe.rayFails)} :
          probe' = [probe EXCEPT
                       !.done = TRUE,
                       !.threw = threw,
                       !.out = IF threw THEN probe.out
                               ELSE checkDetection(enemies[1], probe.player,
                                                   probe.deltaTime, probe.g)]
    /\ UNCHANGED <<visionCones, enemies, player, soundSources, globalAlertState,
                   globalAlertLevel, detectionMeter, shots, lastOp>>

NextDetect == CheckDetection

SpecDetect == InitDetect /\ [][NextDetect]_vars

\* the sound registry on its own: registrations, the passing of time and
\* queries by a listener at given distances from the named points
MaxHeard == 3
SoundPositions == {"A", "B"}
SoundLoudness == {WeaponLoudness(w) : w \in Weapons}
ListenDistances == {0, 60, 150, 250}

\* StealthSystem.registerSound(position, loudness, type)
Register(position, loudness) ==
    LET sounds == registerSound(soundSources, position, loudness, "gunshot")
    IN  /\ Len(sounds) <= MaxHeard
        /\ soundSources' = sounds
        /\ probe' = NoProbe
        /\ UNCHANGED <<visionCones, enemies, player, globalAlertState,
                       globalAlertLevel,
                       detectionMeter, shots, lastOp>>

\* StealthSystem.checkSoundDetection(enemy), the enemy at distances d
Listen(d) ==
    /\ probe' = [op |-> "checkSoundDetection", d |-> d,
                 out |-> checkSoundDetection(soundSources, d)]
    /\ UNCHANGED <<visionCones, enemies, player, soundSources, globalAlertState,
                   globalAlertLevel, detectionMeter, shots, lastOp>>

NextSound ==
    \/ \E p \in SoundPositions, l \in SoundLoudness : Register(p, l)
    \/ \E d \in StallTimes : Stall(d)
    \/ \E d \in [SoundPositions -> ListenDistances] : Listen(d)

InitSound == InitWith(<<NewEnemy(FALSE)>>) /\ probe = NoProbe

SpecSound == InitSound /\ [][NextSound]_vars

\* the game with two agents, as Game.setupEnemies builds the list: a guard,
\* then the high-value target; the player keeps out of their sight, far off
\* or behind an obstacle
GameGeometries ==
    {g \in Geometries :
        (\A p \in Positions : g.d[p] > shootRange) \/ g.hits # {}}

InitGame ==
    InitWith(<<NewEnemy(FALSE), NewEnemy(TRUE)>>) /\ probe = NoProbe

NextGame ==
    \/ \E dt \in DeltaTimes, p \in Positions, posture \in Postures,
          gs \in [1..Len(enemies) -> GameGeometries] : Tick(dt, p, posture, gs)
    \/ \E w \in CarriedWeapons, p \in Positions, i \in 1..Len(enemies),
          h \in BOOLEAN : PlayerShootHit(w, p, i, h)
    \/ \E p \in Positions, l \in AlertAllLevels : AlertAll(p, l)

SpecGame == InitGame /\ [][NextGame]_vars

\* the level queries of the stealth system, each asked once about inputs
\* drawn at the start: getDetectionMeter and updateGlobalAlert about a list
\* of up to MaxAgents agents, getStateFromLevel about a level
MaxAgents == 3
MeterLevels ==
    {0, suspiciousThreshold, combatThreshold, (3 * LevelScale) \div 2}
QueryLevels ==
    {0 - LevelScale \div 10, 0,
     suspiciousThreshold - 1, suspiciousThreshold, (35 * LevelScale) \div 100,
     alertedThreshold - 1, alertedThreshold,
     combatThreshold - 1, combatThreshold, (3 * LevelScale) \div 2}

\* an agent standing at the given alertLevel
EnemyAt(level) ==
    [NewEnemy(FALSE) EXCEPT !.alertLevel = level,
                            !.alertState = getStateFromLevel(level)]

InitLevels ==
    \/ \E n \in 0..MaxAgents : \E levels \in [1..n -> MeterLevels] :
          /\ InitWith([i \in 1..n |-> EnemyAt(levels[i])])
          /\ probe = [op |-> "getDetectionMeter", done |-> FALSE, out |-> 0]
    \/ \E level \in QueryLevels :
          /\ InitWith(<<>>)
          /\ probe = [op |-> "getStateFromLevel", done |-> FALSE,
                      level |-> level, out |-> IDLE]
    \/ \E n \in 0..MaxAgents : \E levels \in [1..n -> MeterLevels] :
          /\ InitWith([i \in 1..n |-> EnemyAt(levels[i])])
          /\ probe = [op |-> "updateGlobalAlert", calls |-> 0, ret |-> IDLE,
                      agents |-> [i \in 1..n |-> EnemyAt(levels[i])],
                      first |-> [ret |-> IDLE, state |-> IDLE, level |-> 0]]

\* StealthSystem.getDetectionMeter(enemies)
GetDetectionMeter ==
    /\ probe.op = "getDetectionMeter"
    /\ ~probe.done
    /\ probe' = [probe EXCEPT !.done = TRUE,
                              !.out = getDetectionMeter(enemies)]
    /\ UNCHANGED <<visionCones, enemies, player, soundSources,
                   globalAlertState, globalAlertLevel, detectionMeter, shots,
                   lastOp>>

\* StealthSystem.getStateFromLevel(level)
GetStateFromLevel ==
    /\ probe.op = "getStateFromLevel"
    /\ ~probe.done
    /\ probe' = [probe EXCEPT !.done = TRUE,
                              !.out = getStateFromLevel(probe.level)]
    /\ UNCHANGED <<visionCones, enemies, player, soundSources,
                   globalAlertState, globalAlertLevel, detectionMeter, shots,
                   lastOp>>

\* StealthSystem.updateGlobalAlert(enemies), called twice in a row; probe
\* keeps the agents as drawn and what the first call returned and stored
UpdateGlobalAlert ==
    /\ probe.op = "updateGlobalAlert"
    /\ probe.calls < 2
    /\ \E global \in {updateGlobalAlert(enemies)} :
          /\ globalAlertState' = global[1]
          /\ globalAlertLevel' = global[2]
          /\ probe' = [probe EXCEPT
                          !.calls = probe.calls + 1,
                          !.ret = global[1],
                          !.first = IF probe.calls = 0
                                    THEN [ret |-> global[1],
                                          state |-> global[1],
                                          level |-> global[2]]
                                    ELSE probe.first]
    /\ UNCHANGED <<visionCones, enemies, player, soundSources,
                   detectionMeter, shots, lastOp>>

NextLevels == GetDetectionMeter \/ GetStateFromLevel \/ UpdateGlobalAlert

SpecLevels == InitLevels /\ [][NextLevels]_vars

\* an agent sent to investigate and then left alone: it is Suspicious with a
\* last-known position and its investigate timer at 0, the player stays out
\* of its range, nothing is fired and nobody calls alertAllEnemies; probe
\* counts the time ticked since, up to MaxQuiet
MaxQuiet == 60
QuietTimes == {1, 10}
QuietLevels ==
    {suspiciousThreshold, LevelScale \div 2, alertedThreshold - 1}
FarGeometries == {g \in Geometries : \A p \in Positions : g.d[p] > shootRange}

InitQuiet ==
    \E isTarget \in BOOLEAN, level \in QuietLevels, p \in Positions :
        /\ InitWith(<<[NewEnemy(isTarget) EXCEPT
                         !.alertLevel = level,
                         !.alertState = getStateFromLevel(level),
                         !.lastKnownPlayerPos = p]>>)
        /\ probe = [op |-> "quiet", elapsed |-> 0]

\* a frame of the game loop in which no agent sees or hears anything
QuietTick(deltaTime) ==
    /\ probe.op = "quiet"
    /\ probe.elapsed + deltaTime <= MaxQuiet
    /\ \E p \in Positions, posture \in Postures,
          gs \in [1..Len(enemies) -> FarGeometries] :
            updateGame(deltaTime, p, posture, gs)
    /\ probe' = [probe EXCEPT !.elapsed = probe.elapsed + deltaTime]

NextQuiet == \E dt \in QuietTimes : QuietTick(dt)

SpecQuiet == InitQuiet /\ [][NextQuiet]_vars

\* one behaviour call of an agent that is not in combat, with inputs drawn
\* at the start: its state, timers and last-known position, its patrol
\* route (empty or of two points), cursor and wait, and its distance to the
\* point the behaviour aims at; probe keeps the drawn last-known position
\* and timers beside what the call did
RouteLengths == {0, 2, 3}
SteerDistances == {3, 5, 8, 20}
SteerStates == {IDLE, SUSPICIOUS, ALERTED}

InitSteer ==
    \E state \in SteerStates, lkp \in Positions \cup {NoPos},
       investigateTime \in {0, 25, investigateDuration},
       searchTime \in {0, searchDuration - 25, searchDuration},
       n \in RouteLengths, wait \in {0, patrolWaitDuration},
       distance \in SteerDistances, dt \in DeltaTimes :
    \E index \in 0..Max(n - 1, 0) :
        /\ InitWith(<<[NewEnemy(FALSE) EXCEPT
                         !.alertState = state,
                         !.alertLevel =
                             CASE state = IDLE -> 0
                               [] state = SUSPICIOUS -> suspiciousThreshold
                               [] state = ALERTED -> alertedThreshold,
                         !.lastKnownPlayerPos = lkp,
                         !.investigateTime = investigateTime,
                         !.searchTime = searchTime]>>)
        /\ probe = [op |-> "behave", done |-> FALSE, deltaTime |-> dt,
                    searchTime |-> searchTime,
                    distance |-> distance,
                    lastKnownPlayerPos |-> lkp,
                    investigateTime |-> investigateTime,
                    currentPatrolIndex |-> index,
                    patrolWaitTime |-> wait,
                    steer |-> [routeLength |-> n,
                               currentPatrolIndex |-> index,
                               patrolWaitTime |-> wait, moved |-> FALSE,
                               indexed |-> FALSE, turned |-> FALSE,
                               ranPatrol |-> FALSE]]

\* the behaviour switch of EnemyAI.update for an agent out of combat
Steer ==
    /\ probe.op = "behave"
    /\ ~probe.done
    /\ LET en == enemies[1]
       IN  /\ enemies' =
                 <<CASE en.alertState = IDLE -> patrol(en, probe.deltaTime)
                     [] en.alertState = SUSPICIOUS ->
                          investigate(en, probe.deltaTime)
                     [] en.alertState = ALERTED ->
                          search(en, probe.deltaTime)>>
           /\ probe' =
                 [probe EXCEPT
                     !.done = TRUE,
                     !.steer =
                         CASE en.alertState = IDLE ->
                                patrolSteer(probe.steer, probe.deltaTime,
                                            probe.distance)
                           [] en.alertState = SUSPICIOUS ->
                                investigateSteer(probe.steer, en,
                                                 probe.deltaTime,
                                                 probe.distance)
                           [] en.alertState = ALERTED ->
                                searchSteer(probe.steer, en, probe.deltaTime,
                                            probe.distance)]
    /\ UNCHANGED <<visionCones, player, soundSources, globalAlertState,
                   globalAlertLevel, detectionMeter, shots, lastOp>>

NextSteer == Steer

SpecSteer == InitSteer /\ [][NextSteer]_vars

\* the stimulus intake of one agent: the registry holds up to MaxHeard
\* events of either category at point "A", the agent has a level and maybe
\* a last-known position, and one frame of zero length runs with the agent
\* at a drawn distance from "A" and the player out of its sight (so that
\* neither decay nor a behaviour timer moves the level after the intake)
SoundTypes == {"gunshot", "footstep"}
SoundAges == {0, audibleAge - 1, audibleAge}
HearDistances == {50, 250}
HearLevels == {0, (6 * LevelScale) \div 10}
RegisteredSounds ==
    {[position |-> "A", loudness |-> l, type |-> t, age |-> a,
      radius |-> l * soundTravel] :
        l \in SoundLoudness, t \in SoundTypes, a \in SoundAges}

InitHear ==
    \E n \in 0..MaxHeard, level \in HearLevels, lkp \in {NoPos, "B"} :
    \E sounds \in [1..n -> RegisteredSounds] :
        /\ enemies = <<[EnemyAt(level) EXCEPT !.lastKnownPlayerPos = lkp]>>
        /\ player = [isAlive |-> TRUE, health |-> playerMaxHealth]
        /\ soundSources = sounds
        /\ globalAlertState = IDLE
        /\ globalAlertLevel = 0
        /\ detectionMeter = 0
        /\ shots = {}
        /\ lastOp = OtherOp
        /\ visionCones = {1}
        /\ probe = [op |-> "hear", done |-> FALSE, d |-> 0,
                    lastKnownPlayerPos |-> lkp]

\* Game.updateGame(0) with the agent d away from "A"
HearTick(d) ==
    /\ probe.op = "hear"
    /\ ~probe.done
    /\ \E posture \in Postures :
          updateGame(0, "A", posture,
                     [i \in 1..Len(enemies) |->
                         [d |-> [p \in Positions |-> d],
                          angle |-> detectionAngle, hits |-> {},
                          roll |-> FALSE]])
    /\ probe' = [probe EXCEPT !.done = TRUE, !.d = d]

NextHear == \E d \in HearDistances : HearTick(d)

SpecHear == InitHear /\ [][NextHear]_vars

\* one guard in combat with a living player who stays within shootRange but
\* out of sight: probe keeps the simulated time since the guard's last shot
\* (sinceShot, -1 before the first) and the time between its last two shots
\* (gap, -1 before the second), both counted up to MaxSince
MaxSince == 10
\* a frame at the cap of Game.update (100 ms) and a frame that is short
\* against it (0 on the 100 ms grid)
FireTimes == {0, 1}
FireGeometries ==
    {[d |-> [p \in Positions |-> 50], angle |-> 0, hits |-> {20},
      roll |-> roll] : roll \in BOOLEAN}

InitFire ==
    /\ InitWith(<<[NewEnemy(FALSE) EXCEPT !.alertLevel = LevelScale,
                                          !.alertState = COMBAT,
                                          !.lastKnownPlayerPos = "A"]>>)
    /\ probe = [op |-> "fire", sinceShot |-> -1, gap |-> -1]

\* Game.updateGame(deltaTime)
FireTick(deltaTime) ==
    /\ probe.op = "fire"
    /\ \E posture \in Postures, g \in FireGeometries :
          updateGame(deltaTime, "A", posture,
                     [i \in 1..Len(enemies) |-> g])
    /\ LET fired == \E s \in shots' : s.enemy = 1
           since == Min(probe.sinceShot + deltaTime, MaxSince)
       IN  probe' = [op |-> "fire",
                     sinceShot |-> IF fired THEN 0
                                   ELSE IF probe.sinceShot < 0 THEN -1
                                   ELSE since,
                     gap |-> IF fired /\ probe.sinceShot >= 0 THEN since
                             ELSE probe.gap]

NextFire == \E deltaTime \in FireTimes : FireTick(deltaTime)

SpecFire == InitFire /\ [][NextFire]_vars

\* ---------------------------------------------------------------- movement

\* the ground plane on a grid of 0.05 m (MoveGrid cells per 0.1 m); a step
\* of speed * deltaTime (m/s, 100 ms) is MoveGrid * speed * deltaTime cells
MoveGrid == 2
walkSpeed == 2
runSpeed == 5
enemyRadius == 3 * MoveGrid
levelBoundX == 240 * MoveGrid
levelBoundZ == 290 * MoveGrid

Abs(n) == IF n < 0 THEN -n ELSE n

\* THREE.Box3.intersectsBox of the agent's test box (y from 0 to 2 m) with
\* a collider's bounds: touching boxes intersect
intersectsBox(position, bounds) ==
    ~(\/ bounds.max.x < position.x - enemyRadius
      \/ bounds.min.x > position.x + enemyRadius
      \/ bounds.max.y < 0
      \/ bounds.min.y > 20 * MoveGrid
      \/ bounds.max.z < position.z - enemyRadius
      \/ bounds.min.z > position.z + enemyRadius)

\* EnemyAI.checkCollision
checkCollision(position, colliders) ==
    \/ \E collider \in colliders :
          IF collider.type = "cylinder"
          THEN LET dx == position.x - collider.position.x
                   dz == position.z - collider.position.z
               IN  dx * dx + dz * dz <
                       (enemyRadius + collider.radius)
                           * (enemyRadius + collider.radius)
          ELSE intersectsBox(position, collider.bounds)
    \/ Abs(position.x) > levelBoundX
    \/ Abs(position.z) > levelBoundZ

\* Vector3.normalize of a vector along one axis (or the zero vector, which
\* three.js leaves zero)
Sign(n) == IF n > 0 THEN 1 ELSE IF n < 0 THEN -1 ELSE 0
normalize(v) == [x |-> Sign(v.x), z |-> Sign(v.z)]

\* faulty variant: the side-step is taken without asking checkCollision
moveTowardsSliding(position, target, speed, deltaTime, colliders) ==
    LET direction == normalize([x |-> target.x - position.x,
                                z |-> target.z - position.z])
        newPosition == [x |-> position.x
                                + direction.x * MoveGrid * speed * deltaTime,
                        z |-> position.z
                                + direction.z * MoveGrid * speed * deltaTime]
        slidePos == [x |-> position.x + direction.z * speed * deltaTime,
                     z |-> position.z - direction.x * speed * deltaTime]
    IN  IF ~checkCollision(newPosition, colliders) THEN newPosition
        ELSE slidePos

\* EnemyAI.moveTowards: the position after the call
moveTowards(position, target, speed, deltaTime, colliders) ==
    LET direction == normalize([x |-> target.x - position.x,
                                z |-> target.z - position.z])
        newPosition == [x |-> position.x
                                + direction.x * MoveGrid * speed * deltaTime,
                        z |-> position.z
                                + direction.z * MoveGrid * speed * deltaTime]
        \* slideDir = (direction.z, 0, -direction.x), at half the step
        slidePos == [x |-> position.x + direction.z * speed * deltaTime,
                     z |-> position.z - direction.x * speed * deltaTime]
    IN  IF ~checkCollision(newPosition, colliders) THEN newPosition
        ELSE IF ~checkCollision(slidePos, colliders) THEN slidePos
        ELSE position

\* the strafe of EnemyAI.combat with the agent's rotation a multiple q of
\* pi/2: strafeDir = (cos(rotation + pi/2), 0, -sin(rotation + pi/2))
strafeDir(q) ==
    CASE q = 0 -> [x |-> 0, z |-> -1]
      [] q = 1 -> [x |-> -1, z |-> 0]
      [] q = 2 -> [x |-> 0, z |-> 1]
      [] q = 3 -> [x |-> 1, z |-> 0]

strafe(position, q, deltaTime, colliders) ==
    LET newPos == [x |-> position.x
                           + strafeDir(q).x * MoveGrid * walkSpeed * deltaTime,
                   z |-> position.z
                           + strafeDir(q).z * MoveGrid * walkSpeed * deltaTime]
    IN  IF ~checkCollision(newPos, colliders) THEN newPos ELSE position

\* a corner of the level with a cylinder collider and a box collider;
\* the agent starts clear of both, MaxMoves position changes are followed
MaxMoves == 5
MoveColliders ==
    {[type |-> "cylinder", position |-> [x |-> 450, z |-> 570],
      radius |-> 5 * MoveGrid],
     [type |-> "box",
      bounds |-> [min |-> [x |-> 466, y |-> 0, z |-> 550],
                  max |-> [x |-> 474, y |-> 20, z |-> 556]]]}
MoveStarts == {[x |-> 470, z |-> 570], [x |-> 476, z |-> 576]}
MoveSpeeds == {walkSpeed, runSpeed}
MoveTargets(position) ==
    {[x |-> position.x + dx, z |-> position.z + dz] :
        dx \in {-100, 0, 100}, dz \in {0}} \cup
    {[x |-> position.x + dx, z |-> position.z + dz] :
        dx \in {0}, dz \in {-100, 100}}

InitMove ==
    \E start \in MoveStarts :
        /\ ~checkCollision(start, MoveColliders)
        /\ InitWith(<<NewEnemy(FALSE)>>)
        /\ probe = [op |-> "move", call |-> "none", n |-> 0,
                    before |-> start, position |-> start,
                    directBlocked |-> FALSE, sideBlocked |-> FALSE]

\* EnemyAI.moveTowards(target, speed, deltaTime, colliders)
MoveTowards(target, speed, deltaTime) ==
    /\ probe.op = "move"
    /\ probe.n < MaxMoves
    /\ LET position == probe.position
           direction == normalize([x |-> target.x - position.x,
                                   z |-> target.z - position.z])
           step == MoveGrid * speed * deltaTime
       IN  probe' =
             [op |-> "move", call |-> "moveTowards", n |-> probe.n + 1,
              before |-> position,
              position |-> moveTowards(position, target, speed, deltaTime,
                                       MoveColliders),
              directBlocked |->
                  checkCollision([x |-> position.x + direction.x * step,
                                  z |-> position.z + direction.z * step],
                                 MoveColliders),
              sideBlocked |->
                  checkCollision(
                      [x |-> position.x + direction.z * speed * deltaTime,
                       z |-> position.z - direction.x * speed * deltaTime],
                      MoveColliders)]
    /\ UNCHANGED <<enemies, player, soundSources, globalAlertState,
                   globalAlertLevel, detectionMeter, shots, lastOp,
                   visionCones>>

\* the strafe branch of EnemyAI.combat
Strafe(q, deltaTime) ==
    /\ probe.op = "move"
    /\ probe.n < MaxMoves
    /\ LET position == probe.position
           step == MoveGrid * walkSpeed * deltaTime
       IN  probe' =
             [op |-> "move", call |-> "strafe", n |-> probe.n + 1,
              before |-> position,
              position |-> strafe(position, q, deltaTime, MoveColliders),
              directBlocked |->
                  checkCollision([x |-> position.x + strafeDir(q).x * step,
                                  z |-> position.z + strafeDir(q).z * step],
                                 MoveColliders),
              sideBlocked |-> FALSE]
    /\ UNCHANGED <<enemies, player, soundSources, globalAlertState,
                   globalAlertLevel, detectionMeter, shots, lastOp,
                   visionCones>>

NextMove ==
    \/ \E target \in MoveTargets(probe.position), speed \in MoveSpeeds,
          deltaTime \in FireTimes : MoveTowards(target, speed, deltaTime)
    \/ \E q \in 0..3, deltaTime \in FireTimes : Strafe(q, deltaTime)

SpecMove == InitMove /\ [][NextMove]_vars

\* an agent below combat level that is left alone from now on: the player
\* stays out of its range, nothing is fired, nobody calls alertAllEnemies;
\* the frame loop keeps ticking with a positive frame time.  The state
\* COMBAT at level 0.5 is what a lost target leaves behind.  probe keeps the
\* level the agent started from
CalmLevels ==
    {0, suspiciousThreshold \div 2, suspiciousThreshold, lostTargetAlert,
     alertedThreshold, combatThreshold - 1}

InitCalm ==
    \E isTarget \in BOOLEAN, level \in CalmLevels, lost \in BOOLEAN,
       investigateTime \in {0, investigateDuration},
       searchTime \in {0, searchDuration} :
        /\ lost => (level = lostTargetAlert /\ ~isTarget)
        /\ enemies = <<[NewEnemy(isTarget) EXCEPT
                          !.alertLevel = level,
                          !.alertState = IF lost THEN COMBAT
                                         ELSE getStateFromLevel(level),
                          !.lastKnownPlayerPos =
                              IF level = 0 THEN NoPos ELSE "A",
                          !.investigateTime = investigateTime,
                          !.searchTime = searchTime]>>
        /\ player = IF lost THEN [isAlive |-> FALSE, health |-> 0]
                    ELSE [isAlive |-> TRUE, health |-> playerMaxHealth]
        /\ soundSources = <<>>
        /\ globalAlertState = IDLE
        /\ globalAlertLevel = 0
        /\ detectionMeter = 0
        /\ shots = {}
        /\ lastOp = OtherOp
        /\ visionCones = {1}
        /\ probe = [op |-> "calm", level |-> level]

\* a frame of the game loop in which no agent sees or hears anything
CalmTick(deltaTime) ==
    /\ probe.op = "calm"
    /\ \E p \in Positions, posture \in Postures,
          gs \in [1..Len(enemies) -> FarGeometries] :
            updateGame(deltaTime, p, posture, gs)
    /\ UNCHANGED probe

NextCalm == \E dt \in QuietTimes : CalmTick(dt)

\* requestAnimationFrame calls Game.update again after every frame
SpecCalm == InitCalm /\ [][NextCalm]_vars /\ WF_vars(NextCalm)

\* ------------------------------------------------------- GameStateManager

LOADING == "LOADING"
MENU == "MENU"
PLAYING == "PLAYING"
PAUSED == "PAUSED"
TARGET_ELIMINATED == "TARGET_ELIMINATED"
ESCAPE == "ESCAPE"
MISSION_COMPLETE == "MISSION_COMPLETE"
GAME_OVER == "GAME_OVER"
GameState ==
    {LOADING, MENU, PLAYING, PAUSED, TARGET_ELIMINATED, ESCAPE,
     MISSION_COMPLETE, GAME_OVER}
\* previousState before the first transition (null)
NoState == "null"

\* GameStateManager.validTransitions
validTransitions(state) ==
    CASE state = LOADING -> {MENU}
      [] state = MENU -> {PLAYING}
      [] state = PLAYING -> {TARGET_ELIMINATED, GAME_OVER, PAUSED}
      [] state = PAUSED -> {PLAYING, MENU}
      [] state = TARGET_ELIMINATED -> {ESCAPE, GAME_OVER}
      [] state = ESCAPE -> {MISSION_COMPLETE, GAME_OVER}
      [] state = MISSION_COMPLETE -> {MENU}
      [] state = GAME_OVER -> {MENU}
      [] OTHER -> {}

\* GameStateManager.isPlaying
isPlaying(sm) == sm.currentState \in {PLAYING, TARGET_ELIMINATED, ESCAPE}

\* the data argument of setState / forceState: {} or { silent: ... }
NoData == [hasSilent |-> FALSE, silent |-> FALSE]
StateData ==
    {NoData, [hasSilent |-> TRUE, silent |-> TRUE],
     [hasSilent |-> TRUE, silent |-> FALSE]}

\* GameStateManager.onStateEnter: the stateData after it; now is Date.now()
onStateEnter(stateData, state, data, now) ==
    CASE state = PLAYING -> [stateData EXCEPT !.missionStartTime = now]
      [] state = TARGET_ELIMINATED ->
            [stateData EXCEPT
                !.targetEliminated = TRUE,
                !.silentKill = IF data.hasSilent THEN data.silent
                               ELSE stateData.silentKill]
      [] state \in {MISSION_COMPLETE, GAME_OVER} ->
            [stateData EXCEPT !.missionEndTime = now]
      [] OTHER -> stateData

\* addListener(callback): states = null, the listener hears every state
AnyState == {"*"}

\* GameStateManager.notifyListeners: for every listener, in the order of the
\* map, the calls of its callback; a listener is the set of states it
\* registered for, or AnyState (states = null)
notifyListeners(listeners, newState, oldState) ==
    [i \in 1..Len(listeners) |->
        IF listeners[i] = AnyState \/ newState \in listeners[i]
        THEN <<[newState |-> newState, oldState |-> oldState]>>
        ELSE <<>>]

\* GameStateManager.forceState
forceState(sm, listeners, newState, data, now) ==
    [sm |-> [currentState |-> newState,
             previousState |-> sm.currentState,
             stateData |-> onStateEnter(sm.stateData, newState, data, now)],
     notified |-> notifyListeners(listeners, newState, sm.currentState),
     ret |-> TRUE]

\* faulty variant: the transition is not validated
setStateUnchecked(sm, listeners, newState, data, now) ==
    forceState(sm, listeners, newState, data, now)

\* GameStateManager.setState
setState(sm, listeners, newState, data, now) ==
    IF newState \notin validTransitions(sm.currentState)
    THEN [sm |-> sm,
          notified |-> [i \in 1..Len(listeners) |-> <<>>],
          ret |-> FALSE]
    ELSE forceState(sm, listeners, newState, data, now)

\* GameStateManager constructor
NewStateManager ==
    [currentState |-> LOADING,
     previousState |-> NoState,
     stateData |-> [missionStartTime |-> 0, missionEndTime |-> 0,
                    targetEliminated |-> FALSE, silentKill |-> TRUE,
                    enemiesKilled |-> 0]]

\* the state manager on its own: up to MaxListeners listeners registered at
\* the start, then any sequence of setState and forceState calls; probe keeps
\* the manager, the last call, the manager before it and what the call did
MaxListeners == 2
ListenerStates == {AnyState, {MISSION_COMPLETE, GAME_OVER}}
StampTimes == {1}

InitState ==
    \E n \in 0..MaxListeners : \E listeners \in [1..n -> ListenerStates] :
        /\ InitWith(<<NewEnemy(FALSE)>>)
        /\ probe = [op |-> "state", call |-> "none", newState |-> NoState,
                    sm |-> NewStateManager, before |-> NewStateManager,
                    listeners |-> listeners,
                    notified |-> [i \in 1..n |-> <<>>],
                    ret |-> FALSE]

\* stateManager.setState(newState, data)
SetState(newState, data, now) ==
    /\ probe.op = "state"
    /\ \E r \in {setState(probe.sm, probe.listeners, newState, data, now)} :
          probe' = [probe EXCEPT !.call = "setState",
                                 !.newState = newState,
                                 !.before = probe.sm,
                                 !.sm = r.sm,
                                 !.notified = r.notified,
                                 !.ret = r.ret]
    /\ UNCHANGED <<enemies, player, soundSources, globalAlertState,
                   globalAlertLevel, detectionMeter, shots, lastOp,
                   visionCones>>

\* stateManager.forceState(newState, data)
ForceState(newState, data, now) ==
    /\ probe.op = "state"
    /\ \E r \in {forceState(probe.sm, probe.listeners, newState, data, now)} :
          probe' = [probe EXCEPT !.call = "forceState",
                                 !.newState = newState,
                                 !.before = probe.sm,
                                 !.sm = r.sm,
                                 !.notified = r.notified,
                                 !.ret = r.ret]
    /\ UNCHANGED <<enemies, player, soundSources, globalAlertState,
                   globalAlertLevel, detectionMeter, shots, lastOp,
                   visionCones>>

NextState ==
    \/ \E newState \in GameState, data \in StateData, now \in StampTimes :
          SetState(newState, data, now)
    \/ \E newState \in GameState, data \in StateData, now \in StampTimes :
          ForceState(newState, data, now)

SpecState == InitState /\ [][NextState]_vars

\* -------------------------------------------------------------- game loop

\* the calls a sequence of per-listener notifications made to listener 1,
\* the listener Game registers for every state
Heard(notified) == IF Len(notified) = 0 THEN <<>> ELSE notified[1]

\* the index of Game.target in the list of agents, 0 when the level has none
TargetOf(ens) ==
    IF \E i \in 1..Len(ens) : ens[i].isTarget
    THEN CHOOSE i \in 1..Len(ens) :
            ens[i].isTarget /\ \A j \in 1..(i - 1) : ~ens[j].isTarget
    ELSE 0

\* faulty variant: the death of the player is looked at last
checkGameConditionsDeathLast(sm, listeners, pl, ens, gas, inZone, counted, now) ==
    LET t == TargetOf(ens)
        r1 == IF t # 0 /\ ~ens[t].isAlive /\ sm.currentState = PLAYING
              THEN setState(sm, listeners, TARGET_ELIMINATED,
                            [hasSilent |-> TRUE, silent |-> gas # COMBAT], now)
              ELSE [sm |-> sm, notified |-> <<<<>>>>, ret |-> FALSE]
        r2 == IF r1.sm.currentState = TARGET_ELIMINATED /\ inZone
              THEN setState(r1.sm, listeners, ESCAPE, NoData, now)
              ELSE [sm |-> r1.sm, notified |-> <<<<>>>>, ret |-> FALSE]
        r3 == IF r2.sm.currentState = ESCAPE /\ inZone
              THEN forceState(r2.sm, listeners, MISSION_COMPLETE, NoData, now)
              ELSE [sm |-> r2.sm, notified |-> <<<<>>>>, ret |-> FALSE]
        r4 == IF ~pl.isAlive
              THEN forceState(r3.sm, listeners, GAME_OVER, NoData, now)
              ELSE [sm |-> r3.sm, notified |-> <<<<>>>>, ret |-> FALSE]
    IN  [sm |-> r4.sm,
         heard |-> Heard(r1.notified) \o Heard(r2.notified)
                      \o Heard(r3.notified) \o Heard(r4.notified),
         counted |-> counted]

\* Game.checkGameConditions: the state manager after it, the states the
\* listener of Game heard during it, in order, and the agents whose death
\* has been counted (_countedKill)
checkGameConditions(sm, listeners, pl, ens, gas, inZone, counted, now) ==
    IF ~pl.isAlive
    THEN LET r == forceState(sm, listeners, GAME_OVER, NoData, now)
         IN  [sm |-> r.sm, heard |-> Heard(r.notified), counted |-> counted]
    ELSE
    LET t == TargetOf(ens)
        eliminated == t # 0 /\ ~ens[t].isAlive /\ sm.currentState = PLAYING
        r1 == IF eliminated
              THEN setState(sm, listeners, TARGET_ELIMINATED,
                            [hasSilent |-> TRUE, silent |-> gas # COMBAT], now)
              ELSE [sm |-> sm, notified |-> <<<<>>>>, ret |-> FALSE]
        \* incrementStat('enemiesKilled')
        sm1 == IF eliminated
               THEN [r1.sm EXCEPT !.stateData.enemiesKilled = @ + 1]
               ELSE r1.sm
        r2 == IF sm1.currentState = TARGET_ELIMINATED /\ inZone
              THEN setState(sm1, listeners, ESCAPE, NoData, now)
              ELSE [sm |-> sm1, notified |-> <<<<>>>>, ret |-> FALSE]
        r3 == IF r2.sm.currentState = ESCAPE /\ inZone
              THEN forceState(r2.sm, listeners, MISSION_COMPLETE, NoData, now)
              ELSE [sm |-> r2.sm, notified |-> <<<<>>>>, ret |-> FALSE]
        fresh == {i \in 1..Len(ens) :
                     ~ens[i].isAlive /\ i \notin counted /\ ~ens[i].isTarget}
    IN  [sm |-> [r3.sm EXCEPT
                    !.stateData.enemiesKilled = @ + Cardinality(fresh)],
         heard |-> Heard(r1.notified) \o Heard(r2.notified)
                      \o Heard(r3.notified),
         counted |-> counted \union fresh]

\* the game loop: the level has a guard and, in all levels but one, the
\* target; the game waits in MENU with the listener of Game registered.
\* probe keeps the state manager, every state the listener heard so far,
\* whether the player stands in the escape zone, and for the last frame
\* whether it ran updateGame and the state it started in
MaxFrames == 4

InitMission ==
    \E ens \in {<<NewEnemy(FALSE), NewEnemy(TRUE)>>, <<NewEnemy(FALSE)>>} :
        /\ InitWith(ens)
        /\ probe = [op |-> "mission", call |-> "init",
                    sm |-> [NewStateManager EXCEPT
                               !.currentState = MENU,
                               !.previousState = LOADING],
                    listeners |-> <<AnyState>>,
                    heard |-> <<>>,
                    inEscapeZone |-> FALSE,
                    counted |-> {},
                    ticked |-> FALSE,
                    from |-> MENU,
                    frames |-> 0]

\* Game.startGame
StartGame(now) ==
    /\ probe.op = "mission"
    /\ \E r \in {setState(probe.sm, probe.listeners, PLAYING, NoData, now)} :
          probe' = [probe EXCEPT !.call = "startGame",
                                 !.sm = r.sm,
                                 !.heard = @ \o Heard(r.notified),
                                 !.ticked = FALSE,
                                 !.from = probe.sm.currentState]
    /\ UNCHANGED <<enemies, player, soundSources, globalAlertState,
                   globalAlertLevel, detectionMeter, shots, lastOp,
                   visionCones>>

\* Game.update, one frame. While isPlaying() it runs updateGame: the player,
\* the weapon, every agent and the aggregation are updated, of which this
\* keeps the outcome only (playerDies: an agent's shot kills the player;
\* killed: the agents the player's shots kill; inZone: where the player
\* stands afterwards; gas: the aggregated alert state), and then
\* checkGameConditions. Otherwise nothing of the game is touched.
Update(playerDies, killed, inZone, gas, now) ==
    /\ probe.op = "mission"
    /\ probe.frames < MaxFrames
    /\ IF isPlaying(probe.sm)
       THEN LET pl == [player EXCEPT !.isAlive = @ /\ ~playerDies]
                ens == [i \in 1..Len(enemies) |->
                           IF i \in killed
                           THEN [enemies[i] EXCEPT !.isAlive = FALSE]
                           ELSE enemies[i]]
            IN  \E r \in {checkGameConditions(probe.sm, probe.listeners, pl,
                              ens, gas, inZone, probe.counted, now)} :
                /\ player' = pl
                /\ enemies' = ens
                /\ globalAlertState' = gas
                /\ probe' = [probe EXCEPT !.call = "update",
                                          !.sm = r.sm,
                                          !.heard = @ \o r.heard,
                                          !.inEscapeZone = inZone,
                                          !.counted = r.counted,
                                          !.ticked = TRUE,
                                          !.from = probe.sm.currentState,
                                          !.frames = @ + 1]
       ELSE /\ probe' = [probe EXCEPT !.call = "update",
                                      !.ticked = FALSE,
                                      !.from = probe.sm.currentState,
                                      !.frames = @ + 1]
            /\ UNCHANGED <<enemies, player, globalAlertState>>
    /\ UNCHANGED <<soundSources, globalAlertLevel, detectionMeter, shots,
                   lastOp, visionCones>>

NextMission ==
    \/ \E now \in StampTimes : StartGame(now)
    \/ \E playerDies \in BOOLEAN, killed \in SUBSET (1..Len(enemies)),
          inZone \in BOOLEAN, gas \in {IDLE, COMBAT}, now \in StampTimes :
          Update(playerDies, killed, inZone, gas, now)

SpecMission == InitMission /\ [][NextMission]_vars

\* ------------------------------------------------------------- properties

Agents == 1..Len(enemies)

\* C1: an agent's alertLevel is never negative, after every tick and after
\* every takeDamage, alertAllEnemies and sound registration
C1_AlertLevelNonNegative ==
    \A i \in Agents : enemies[i].alertLevel >= 0

\* a living agent that has searched is back at exactly zero after a tick
C1_Witness ==
    /\ lastOp.op = "tick"
    /\ \E i \in Agents : /\ enemies[i].isAlive
                         /\ enemies[i].alertLevel = 0
                         /\ enemies[i].searchTime > 0

\* C2: after every tick, each living agent's alertState is
\* getStateFromLevel of its alertLevel, also when the behaviour of that tick
\* changed the level
C2_StateIsThresholdOfLevel ==
    lastOp.op = "tick" =>
        \A i \in Agents :
            enemies[i].isAlive =>
                enemies[i].alertState = getStateFromLevel(enemies[i].alertLevel)

\* C3: checkDetection returns exactly 0 whenever an obstacle that is neither
\* an agent nor the player meets the sightline before the player's eye, at
\* every distance and angle
C3_BlockedSightlineGivesZero ==
    (/\ probe.op = "checkDetection"
     /\ probe.done
     /\ \E h \in probe.g.hits : h < probe.g.d[probe.player.position])
        => probe.out = 0

C5_TakeDamageOnAlive ==
    [][(lastOp'.op = "takeDamage" /\ enemies[lastOp'.enemy].isAlive) =>
          LET i == lastOp'.enemy
              dealt == IF lastOp'.isHeadshot THEN 2 * lastOp'.amount
                       ELSE lastOp'.amount
          IN  /\ enemies'[i].health = enemies[i].health - dealt
              /\ enemies'[i].health > 0 =>
                     /\ enemies'[i].isAlive
                     /\ enemies'[i].alertLevel = LevelScale
                     /\ enemies'[i].alertState = COMBAT]_vars

\* an agent whose level was above 1.0 was hit and survived
C5_Witness ==
    /\ lastOp.op = "takeDamage"
    /\ lastOp.wasAlive
    /\ lastOp.wasAbove
    /\ enemies[lastOp.enemy].isAlive
    /\ enemies[lastOp.enemy].alertLevel = LevelScale

\* C6: every shot of a tick was fired by a living agent that is not the
\* high-value target, whose state computed in that tick was COMBAT, at a
\* living player
C6_FiresOnlyInCombat ==
    \A s \in shots :
        /\ s.shot.isAlive
        /\ s.shot.alertState = COMBAT
        /\ s.shot.playerAlive
        /\ ~s.shot.isTarget
        /\ ~enemies[s.enemy].isTarget

\* an agent fired in the last tick
C6_Witness ==
    lastOp.op = "tick" /\ shots # {}

\* C7: a sound is never returned to a query made 2000 ms or more after its
\* registration: whatever is returned is an event younger than 2000 ms
C7_OldSoundNeverReturned ==
    (probe.op = "checkSoundDetection" /\ probe.out # NoSound) =>
        \E i \in 1..Len(soundSources) :
            /\ soundSources[i].age < audibleAge
            /\ soundSources[i].position = probe.out.position
            /\ soundSources[i].type = probe.out.type

\* the events that qualify for a listener at distances d: younger than
\* 2000 ms and within their radius
Qualifying(d) ==
    {i \in 1..Len(soundSources) :
        /\ soundSources[i].age < audibleAge
        /\ d[soundSources[i].position] <= soundSources[i].radius}

\* effective loudness of event i at distances d: loudness x (1 - d / radius)
EffectiveLoudness(i, d) ==
    soundSources[i].loudness
    * (soundSources[i].radius - d[soundSources[i].position])
    * (600 \div soundSources[i].radius)

\* C8: checkSoundDetection returns null when no event qualifies, and
\* otherwise a qualifying event of greatest effective loudness
C8_LoudestQualifyingSound ==
    probe.op = "checkSoundDetection" =>
        IF Qualifying(probe.d) = {} THEN probe.out = NoSound
        ELSE \E i \in Qualifying(probe.d) :
                /\ probe.out = [position |-> soundSources[i].position,
                                loudness |-> EffectiveLoudness(i, probe.d),
                                type |-> soundSources[i].type]
                /\ \A j \in Qualifying(probe.d) :
                       EffectiveLoudness(j, probe.d)
                           <= EffectiveLoudness(i, probe.d)

\* the greatest alertLevel among the agents in the set S, 0 if none is above
HighestLevel(S) ==
    LET levels == {enemies[i].alertLevel : i \in S} \cup {0}
    IN  CHOOSE m \in levels : \A l \in levels : l <= m

\* C9: after a tick the global level is the greatest alertLevel of the
\* agents and the global state is the alertState of the first agent that
\* attains it; with no agent above 0 they are IDLE and 0
C9_GlobalAlertIsHighest ==
    lastOp.op = "tick" =>
        LET m == HighestLevel(Agents)
        IN  /\ globalAlertLevel = m
            /\ IF m > 0
               THEN LET first == CHOOSE i \in Agents :
                                    /\ enemies[i].alertLevel = m
                                    /\ \A j \in 1..(i - 1) :
                                           enemies[j].alertLevel < m
                    IN  globalAlertState = enemies[first].alertState
               ELSE globalAlertState = IDLE

\* after a tick both agents are at the same level above 0 in different
\* states, and the first gives the global state
C9_Witness ==
    /\ lastOp.op = "tick"
    /\ Len(enemies) = 2
    /\ enemies[1].alertLevel = enemies[2].alertLevel
    /\ enemies[1].alertLevel > 0
    /\ enemies[1].alertState # enemies[2].alertState
    /\ globalAlertState = enemies[1].alertState

Living == {i \in Agents : enemies[i].isAlive}

\* C10: after a tick the global level, the global state and the detection
\* meter are those of the living agents alone
C10_GlobalAlertFromLiving ==
    lastOp.op = "tick" =>
        LET m == HighestLevel(Living)
        IN  /\ globalAlertLevel = m
            /\ detectionMeter = Min(LevelScale, m)
            /\ IF m > 0
               THEN \E i \in Living : /\ enemies[i].alertLevel = m
                                       /\ globalAlertState = enemies[i].alertState
               ELSE globalAlertState = IDLE

\* C11: getDetectionMeter returns min(1, the greatest alertLevel of the
\* agents), a value in [0, 1]: 1 when an agent stands above 1.0, 0 for the
\* empty list
C11_MeterIsClampedMaximum ==
    (probe.op = "getDetectionMeter" /\ probe.done) =>
        /\ probe.out \in 0..LevelScale
        /\ probe.out = Min(LevelScale, HighestLevel(Agents))
        /\ (enemies = <<>> => probe.out = 0)

C11_Witness ==
    /\ probe.op = "getDetectionMeter"
    /\ probe.done
    /\ \E i \in Agents : enemies[i].alertLevel > LevelScale
    /\ probe.out = LevelScale

C11_WitnessEmpty ==
    /\ probe.op = "getDetectionMeter"
    /\ probe.done
    /\ enemies = <<>>
    /\ probe.out = 0

\* the answer of checkDetection to the drawn query with the player moved to
\* distance x along the same bearing, and whether it meets a clear sightline
DetectionAt(x) ==
    checkDetection(enemies[1], probe.player, probe.deltaTime,
                   [probe.g EXCEPT !.d = [p \in Positions |-> x]])
ClearAt(x) ==
    /\ probe.player.isAlive
    /\ probe.g.angle <= detectionAngle
    /\ \A h \in probe.g.hits : h >= x

\* C12: with everything but the distance held fixed and deltaTime > 0,
\* checkDetection is strictly decreasing in the distance below
\* detectionRange on a clear sightline, and it is exactly 0 at every distance
\* from detectionRange on, detectionRange itself included
C12_FallsWithDistance ==
    (/\ probe.op = "checkDetection"
     /\ probe.done
     /\ ~probe.rayFails
     /\ probe.deltaTime > 0) =>
        LET distance == probe.g.d[probe.player.position]
            range == detectionRange(enemies[1])
        IN  /\ distance >= range => probe.out = 0
            /\ \A x \in DetectDistances :
                  (/\ distance < x
                   /\ x < range
                   /\ ClearAt(distance)
                   /\ ClearAt(x)) => DetectionAt(x) < probe.out

\* the part of C12 that holds: the fall below detectionRange and 0 beyond it
C12_FallsBelowRange ==
    (/\ probe.op = "checkDetection"
     /\ probe.done
     /\ ~probe.rayFails
     /\ probe.deltaTime > 0) =>
        LET distance == probe.g.d[probe.player.position]
            range == detectionRange(enemies[1])
        IN  /\ distance > range => probe.out = 0
            /\ \A x \in DetectDistances :
                  (/\ distance < x
                   /\ x < range
                   /\ ClearAt(distance)
                   /\ ClearAt(x)) => DetectionAt(x) < probe.out

\* the order of the alert states
Rank(state) ==
    CASE state = IDLE -> 0
      [] state = SUSPICIOUS -> 1
      [] state = ALERTED -> 2
      [] state = COMBAT -> 3

\* C13: getStateFromLevel maps a level below 0.3 to Idle, from 0.3 and
\* below 0.7 to Suspicious, from 0.7 and below 1.0 to Alerted, from 1.0 on
\* to Combat, and a higher level never maps to a lower state
C13_ThresholdMap ==
    (probe.op = "getStateFromLevel" /\ probe.done) =>
        /\ probe.out =
              CASE 10 * probe.level < 3 * LevelScale -> IDLE
                [] /\ 10 * probe.level >= 3 * LevelScale
                   /\ 10 * probe.level < 7 * LevelScale -> SUSPICIOUS
                [] /\ 10 * probe.level >= 7 * LevelScale
                   /\ probe.level < LevelScale -> ALERTED
                [] probe.level >= LevelScale -> COMBAT
        /\ \A higher \in QueryLevels :
              higher >= probe.level =>
                  Rank(getStateFromLevel(higher)) >= Rank(probe.out)

C13_Witness ==
    /\ probe.op = "getStateFromLevel"
    /\ probe.done
    /\ 100 * probe.level = 35 * LevelScale
    /\ probe.out = SUSPICIOUS

\* C14: an alive agent in investigate mode (Suspicious, last-known position
\* set, investigate timer 0) that then gets no stimulus for more than 5
\* seconds of ticks stands at alertLevel exactly 0 with its
\* lastKnownPlayerPos cleared
C14_QuietInvestigatorForgets ==
    (probe.op = "quiet" /\ probe.elapsed > investigateDuration) =>
        \A i \in Agents :
            enemies[i].isAlive =>
                /\ enemies[i].alertLevel = 0
                /\ enemies[i].lastKnownPlayerPos = NoPos

\* the part of C14 that holds: the level has decayed to exactly 0
C14_QuietInvestigatorCalms ==
    (probe.op = "quiet" /\ probe.elapsed > investigateDuration) =>
        \A i \in Agents : enemies[i].isAlive => enemies[i].alertLevel = 0

\* C15: a set lastKnownPlayerPos becomes absent only in a tick in which the
\* living agent, Suspicious, gives up investigating (its investigate timer
\* passing investigateDuration, the timer and the level reset to 0); no
\* decay, search time-out, lost target, takeDamage, death or
\* alertAllEnemies clears it
C15_OnlyGiveUpForgets ==
    [][\A i \in Agents :
          (/\ enemies[i].lastKnownPlayerPos # NoPos
           /\ enemies'[i].lastKnownPlayerPos = NoPos) =>
              /\ lastOp'.op = "tick"
              /\ enemies[i].isAlive
              /\ enemies'[i].alertState = SUSPICIOUS
              /\ enemies'[i].investigateTime = 0
              /\ enemies'[i].alertLevel = 0
              /\ \E dt \in DeltaTimes :
                    enemies[i].investigateTime + dt > investigateDuration]_vars

C15_Witness ==
    /\ lastOp.op = "tick"
    /\ \E i \in Agents :
          /\ enemies[i].isAlive
          /\ enemies[i].alertState = SUSPICIOUS
          /\ enemies[i].alertLevel = 0
          /\ enemies[i].lastKnownPlayerPos = NoPos

\* C16: death is permanent and absorbing: an agent whose isAlive is false
\* never has it true again, and a tick leaves every field of a dead agent
\* (timers, alertLevel, alertState, last-known position, health) unchanged
C16_DeadAgentUntouchedByTick ==
    [][\A i \in Agents :
          ~enemies[i].isAlive =>
              /\ ~enemies'[i].isAlive
              /\ (lastOp'.op = "tick" => enemies'[i] = enemies[i])]_vars

C16_Witness ==
    /\ lastOp.op = "tick"
    /\ \E i, j \in Agents :
          /\ ~enemies[i].isAlive
          /\ enemies[i].alertState = COMBAT
          /\ enemies[j].isAlive
          /\ enemies[j].alertLevel > 0

\* C17: after an agent has died the registry visionCones holds no entry
\* under that agent's id
C17_DeadAgentHasNoCone ==
    \A i \in Agents : ~enemies[i].isAlive => i \notin visionCones

\* C18: alertAllEnemies(agents, p, L) leaves every agent of the list, dead
\* ones included, with lastKnownPlayerPos = p, alertLevel = max(previous
\* level, L) and alertState = getStateFromLevel of that level, every other
\* field as it was
C18_AlertAllRaisesEveryAgent ==
    [][lastOp'.op = "alertAll" =>
          /\ Len(enemies') = Len(enemies)
          /\ \A i \in Agents :
                LET level == Max(enemies[i].alertLevel, lastOp'.level)
                IN  /\ level >= enemies[i].alertLevel
                    /\ enemies'[i] =
                          [enemies[i] EXCEPT
                              !.lastKnownPlayerPos = lastOp'.position,
                              !.alertLevel = level,
                              !.alertState = getStateFromLevel(level)]]_vars

C18_Witness ==
    /\ lastOp.op = "alertAll"
    /\ \E i, j \in Agents :
          /\ enemies[i].alertLevel > lastOp.level
          /\ enemies[i].lastKnownPlayerPos = lastOp.position
          /\ enemies[j].alertLevel = lastOp.level
          /\ enemies[j].alertState = SUSPICIOUS

\* C19: when the occlusion query fails, checkDetection treats the sightline
\* as blocked and returns 0, and no error leaves the call
C19_FailedQueryCountsAsBlocked ==
    (probe.op = "checkDetection" /\ probe.done /\ probe.rayFails) =>
        /\ ~probe.threw
        /\ probe.out = 0

\* C20: missing inputs degrade to a safe default: an Idle agent with an
\* empty patrol route does not move and does not index the route; a
\* Suspicious agent with no last-known position runs the patrol behaviour
\* for that tick and its investigate timer does not advance; an Alerted
\* agent with no last-known position does not move
C20_MissingInputsDegrade ==
    (probe.op = "behave" /\ probe.done) =>
        LET en == enemies[1]
            st == probe.steer
        IN  /\ (en.alertState = IDLE /\ st.routeLength = 0) =>
                  (~st.moved /\ ~st.indexed)
            /\ (/\ en.alertState = SUSPICIOUS
                /\ probe.lastKnownPlayerPos = NoPos) =>
                  /\ st.ranPatrol
                  /\ en.investigateTime = probe.investigateTime
                  /\ en.lastKnownPlayerPos = NoPos
                  /\ (st.routeLength = 0 => (~st.moved /\ ~st.indexed))
            /\ (/\ en.alertState = ALERTED
                /\ probe.lastKnownPlayerPos = NoPos) => ~st.moved

C20_Witness ==
    /\ probe.op = "behave"
    /\ probe.done
    /\ probe.deltaTime > 0
    /\ enemies[1].alertState = IDLE
    /\ probe.steer.routeLength = 0
    /\ probe.steer.patrolWaitTime = 0
    /\ probe.steer.ranPatrol
    /\ ~probe.steer.moved

\* the loudness of an unsuppressed shot (1.0), as fired by the agents
UnsuppressedLoudness == WeaponLoudness("pistol")

\* C21: every gunshot registers exactly one sound event with its declared
\* loudness: the player's shot one event of the weapon's loudness, and
\* every shot an agent fired in a tick one event of loudness 1.0
C21_EveryShotIsRegistered ==
    /\ lastOp.op = "takeDamage" =>
          /\ soundSources # <<>>
          /\ soundSources[Len(soundSources)].age = 0
          /\ soundSources[Len(soundSources)].type = "gunshot"
          /\ soundSources[Len(soundSources)].loudness \in
                {WeaponLoudness(w) : w \in CarriedWeapons}
    /\ (lastOp.op = "tick" /\ shots # {}) =>
          Cardinality({k \in 1..Len(soundSources) :
                          /\ soundSources[k].type = "gunshot"
                          /\ soundSources[k].loudness = UnsuppressedLoudness})
              >= Cardinality(shots)

\* the part of C21 that holds: the player's shot is registered
C21_PlayerShotIsRegistered ==
    lastOp.op = "takeDamage" =>
        /\ soundSources # <<>>
        /\ soundSources[Len(soundSources)].age = 0
        /\ soundSources[Len(soundSources)].type = "gunshot"
        /\ soundSources[Len(soundSources)].loudness \in
              {WeaponLoudness(w) : w \in CarriedWeapons}

C23_PlainSightIsDetected ==
    (/\ probe.op = "checkDetection"
     /\ probe.done
     /\ ~probe.rayFails
     /\ probe.deltaTime > 0
     /\ probe.player.isAlive
     /\ probe.g.d[probe.player.position] < detectionRange(enemies[1])
     /\ probe.g.angle <= detectionAngle
     /\ \A h \in probe.obstacles : h >= probe.g.d[probe.player.position]) =>
        /\ probe.out > 0
        /\ probe.out = DetectionAt(probe.g.d[probe.player.position])

\* the part of C23 that holds: the same with no mesh at all on the sightline
C23_EmptySightlineIsDetected ==
    (/\ probe.op = "checkDetection"
     /\ probe.done
     /\ ~probe.rayFails
     /\ probe.deltaTime > 0
     /\ probe.g.d[probe.player.position] < detectionRange(enemies[1])
     /\ ClearAt(probe.g.d[probe.player.position])) =>
        /\ probe.out > 0
        /\ probe.out = DetectionAt(probe.g.d[probe.player.position])

\* C24: a tick with the player alive never lowers the alertLevel of a living
\* agent whose state is COMBAT, and leaves it in COMBAT when its level is at
\* least 1.0; a living agent in COMBAT at level 1.0 or above stops being so
\* only in a tick that starts with the player not alive
C24_CombatDoesNotDecay ==
    [][\A i \in Agents :
          /\ (/\ lastOp'.op = "tick"
              /\ enemies[i].isAlive
              /\ enemies[i].alertState = COMBAT
              /\ player.isAlive) =>
                /\ enemies'[i].alertLevel >= enemies[i].alertLevel
                /\ (enemies[i].alertLevel >= LevelScale =>
                      enemies'[i].alertState = COMBAT)
          /\ (/\ enemies'[i].isAlive
              /\ enemies[i].alertState = COMBAT
              /\ enemies[i].alertLevel >= LevelScale
              /\ \/ enemies'[i].alertState # COMBAT
                 \/ enemies'[i].alertLevel < LevelScale) =>
                (lastOp'.op = "tick" /\ ~player.isAlive)]_vars

C24_Witness ==
    /\ lastOp.op = "tick"
    /\ player.isAlive
    /\ \E i \in Agents :
          /\ enemies[i].isAlive
          /\ enemies[i].alertState = COMBAT
          /\ enemies[i].alertLevel >= LevelScale
          /\ enemies[i].shootCooldown < 0

\* the gunshot events audible to the agent of the last intake: younger than
\* 2000 ms and within their radius of it
AudibleGunshots ==
    {k \in 1..Len(soundSources) :
        /\ soundSources[k].type = "gunshot"
        /\ soundSources[k].age < audibleAge
        /\ probe.d <= soundSources[k].radius}
AudibleOthers ==
    {k \in 1..Len(soundSources) :
        /\ soundSources[k].type # "gunshot"
        /\ soundSources[k].age <= audibleAge
        /\ probe.d <= soundSources[k].radius}

\* C25: in a tick in which a gunshot event is audible to a living agent, the
\* agent's alertLevel after the intake is at least 0.5 and the event's
\* position becomes lastKnownPlayerPos exactly when none was set, whatever
\* events of other categories are audible in that tick
C25_AudibleGunshotAlerts ==
    (/\ probe.op = "hear"
     /\ probe.done
     /\ enemies[1].isAlive
     /\ AudibleGunshots # {}) =>
        /\ enemies[1].alertLevel >= gunshotAlert
        /\ probe.lastKnownPlayerPos = NoPos =>
              enemies[1].lastKnownPlayerPos \in
                  {soundSources[k].position : k \in AudibleGunshots}
        /\ probe.lastKnownPlayerPos # NoPos =>
              enemies[1].lastKnownPlayerPos = probe.lastKnownPlayerPos

\* the part of C25 that holds: the same when no event of another category
\* is audible in the tick
C25_GunshotAloneAlerts ==
    (/\ probe.op = "hear"
     /\ probe.done
     /\ enemies[1].isAlive
     /\ AudibleGunshots # {}
     /\ AudibleOthers = {}) =>
        /\ enemies[1].alertLevel >= gunshotAlert
        /\ probe.lastKnownPlayerPos = NoPos =>
              enemies[1].lastKnownPlayerPos \in
                  {soundSources[k].position : k \in AudibleGunshots}
        /\ probe.lastKnownPlayerPos # NoPos =>
              enemies[1].lastKnownPlayerPos = probe.lastKnownPlayerPos

\* C26: a search tick in which the search timer passes 10 s lowers the
\* alertLevel by exactly 0.3 and resets the timer to 0; every other search
\* tick leaves the alertLevel as it was and only advances the timer
C26_SearchCalmsDownOnTimeOut ==
    (probe.op = "behave" /\ probe.done /\ enemies[1].alertState = ALERTED) =>
        IF probe.searchTime + probe.deltaTime > searchDuration
        THEN /\ 10 * enemies[1].alertLevel =
                    10 * alertedThreshold - 3 * LevelScale
             /\ enemies[1].searchTime = 0
        ELSE /\ enemies[1].alertLevel = alertedThreshold
             /\ enemies[1].searchTime = probe.searchTime + probe.deltaTime

C26_Witness ==
    /\ probe.op = "behave"
    /\ probe.done
    /\ enemies[1].alertState = ALERTED
    /\ probe.searchTime = searchDuration
    /\ probe.deltaTime > 0
    /\ enemies[1].searchTime = 0
    /\ enemies[1].alertLevel < suspiciousThreshold + LevelScale \div 5

\* C27: a tick of a living agent in COMBAT that starts with the player not
\* alive leaves its alertLevel at 0.5 and its alertState other than COMBAT,
\* and the agent does not fire in it
C27_LostTargetLeavesCombat ==
    [][\A i \in Agents :
          (/\ lastOp'.op = "tick"
           /\ enemies[i].isAlive
           /\ enemies[i].alertState = COMBAT
           /\ enemies[i].alertLevel >= LevelScale
           /\ ~player.isAlive) =>
              /\ enemies'[i].alertLevel = lostTargetAlert
              /\ enemies'[i].alertState # COMBAT
              /\ shots' = {}]_vars

\* the part of C27 that holds: the level becomes 0.5 and nothing is fired
C27_LostTargetLowersLevel ==
    [][\A i \in Agents :
          (/\ lastOp'.op = "tick"
           /\ enemies[i].isAlive
           /\ enemies[i].alertState = COMBAT
           /\ enemies[i].alertLevel >= LevelScale
           /\ ~player.isAlive) =>
              /\ enemies'[i].alertLevel = lostTargetAlert
              /\ shots' = {}]_vars

\* the loop of Game.updateGame run over the agents in the opposite order
RECURSIVE UpdateEnemiesDownFrom(_, _, _, _, _, _, _)
UpdateEnemiesDownFrom(ens, i, pl, fired, deltaTime, gs, sounds) ==
    IF i < 1 THEN [enemies |-> ens, player |-> pl, shots |-> fired]
    ELSE LET r == update(ens[i], pl, deltaTime, gs[i], sounds)
         IN  UpdateEnemiesDownFrom([ens EXCEPT ![i] = r.enemy], i - 1,
                                   r.player,
                                   fired \cup {[enemy |-> i, shot |-> x] :
                                                 x \in r.shots},
                                   deltaTime, gs, sounds)

\* C28: within a tick each agent's result is independent of the other
\* agents' updates: from every state and for every frame (the hit rolls
\* fixed), updating the agents first to last and last to first yields the
\* same alertLevel, alertState and lastKnownPlayerPos for every agent, also
\* when a shot of the tick kills the player
C28_OrderIndependentTick ==
    \A dt \in DeltaTimes, p \in Positions, posture \in Postures,
       gs \in [Agents -> GameGeometries] :
        LET pl == [isAlive |-> player.isAlive, health |-> player.health,
                   position |-> p,
                   isCrouching |-> posture.isCrouching,
                   isMoving |-> posture.isMoving,
                   isRunning |-> posture.isRunning]
            sounds == Older(soundSources, dt)
            up == UpdateEnemiesFrom(enemies, 1, pl, {}, dt, gs, sounds)
            down == UpdateEnemiesDownFrom(enemies, Len(enemies), pl, {}, dt,
                                          gs, sounds)
        IN  \A i \in Agents :
                /\ up.enemies[i].alertLevel = down.enemies[i].alertLevel
                /\ up.enemies[i].alertState = down.enemies[i].alertState
                /\ up.enemies[i].lastKnownPlayerPos =
                       down.enemies[i].lastKnownPlayerPos

\* C29: a query never modifies the registry, and a registration removes
\* exactly the entries that are at least 3000 ms old: what is left before the
\* new entry is the old registry without them, in order, so no entry that a
\* query could still return (at most 2000 ms old) is removed
C29_PruningRemovesOnlyExpired ==
    [][/\ probe'.op = "checkSoundDetection" => soundSources' = soundSources
       /\ (/\ soundSources' # soundSources
           /\ soundSources' # <<>>
           /\ soundSources'[Len(soundSources')].age = 0) =>
             /\ SubSeq(soundSources', 1, Len(soundSources') - 1) =
                    SelectSeq(soundSources, LAMBDA s : s.age < pruneAge)
             /\ \A i \in 1..Len(soundSources) :
                    ~(soundSources[i].age > audibleAge) =>
                        \E j \in 1..Len(soundSources') :
                            soundSources'[j] = soundSources[i]]_vars

\* a registration has just been made next to an entry at the very end of the
\* audible window, and that entry is still there
C29_Witness ==
    /\ Len(soundSources) = 2
    /\ soundSources[1].age = audibleAge
    /\ soundSources[2].age = 0
    /\ probe.op = "none"

\* C30: between two consecutive shots of the same agent at least
\* shootInterval of simulated time (the sum of the frame times of the ticks
\* after the first shot, up to and including the tick of the second) passes
C30_ShotsAreShootIntervalApart ==
    (probe.op = "fire" /\ probe.gap >= 0) => probe.gap >= shootInterval

\* the part of C30 that holds: the cooldown a shot sets is never above
\* shootInterval, and an agent whose cooldown is positive when a tick begins
\* does not fire in that tick
C30_NoShotWhileCoolingDown ==
    [][\A i \in Agents :
          (lastOp'.op = "tick" /\ enemies[i].shootCooldown > 0) =>
              ~\E s \in shots' : s.enemy = i]_vars

C31_WitnessSideStep ==
    /\ probe.op = "move"
    /\ probe.call = "moveTowards"
    /\ probe.directBlocked
    /\ probe.position # probe.before
    /\ Abs(probe.before.x) + MoveGrid * runSpeed <= levelBoundX
    /\ Abs(probe.before.z) + MoveGrid * runSpeed <= levelBoundZ

\* C32: with a non-empty route the patrol cursor is a valid index; a tick
\* changes it only when the patrol behaviour runs with no dwell time left
\* and the agent is closer than 0.5 to the current waypoint, and then it
\* advances by one modulo the route length and the dwell timer becomes 2 s;
\* while the dwell timer is positive the patrol behaviour does not move
C32_PatrolCursorValid ==
    (probe.op = "behave" /\ probe.steer.routeLength > 0) =>
        LET st == probe.steer
            n == st.routeLength
            arrived == /\ st.ranPatrol
                       /\ ~(probe.patrolWaitTime > 0)
                       /\ probe.distance < patrolReach
        IN  /\ st.currentPatrolIndex \in 0..(n - 1)
            /\ st.currentPatrolIndex # probe.currentPatrolIndex => arrived
            /\ (probe.done /\ arrived) =>
                  /\ st.currentPatrolIndex =
                         (probe.currentPatrolIndex + 1) % n
                  /\ st.patrolWaitTime = patrolWaitDuration
                  /\ ~st.moved
            /\ (probe.done /\ ~arrived) =>
                  st.currentPatrolIndex = probe.currentPatrolIndex
            /\ (st.ranPatrol /\ probe.patrolWaitTime > 0) => ~st.moved

\* the patrol behaviour reached the last waypoint of a route and wrapped the
\* cursor around to the first
C32_Witness ==
    /\ probe.op = "behave"
    /\ probe.done
    /\ probe.steer.ranPatrol
    /\ probe.steer.routeLength > 1
    /\ probe.currentPatrolIndex = probe.steer.routeLength - 1
    /\ probe.steer.currentPatrolIndex = 0
    /\ probe.steer.patrolWaitTime = patrolWaitDuration

\* the events of greatest effective loudness among the events in S, for a
\* listener at distances d
Loudest(S, d) ==
    {i \in S : \A j \in S : EffectiveLoudness(j, d) <= EffectiveLoudness(i, d)}

\* what checkSoundDetection returns for event i
HeardAs(i, d) ==
    [position |-> soundSources[i].position,
     loudness |-> EffectiveLoudness(i, d),
     type |-> soundSources[i].type]

\* C33: when several qualifying events (younger than 2000 ms, within their
\* radius) share the greatest effective loudness, checkSoundDetection
\* returns the one of them that was registered first
C33_FirstOfEqualLoudestWins ==
    (/\ probe.op = "checkSoundDetection"
     /\ Cardinality(Loudest(Qualifying(probe.d), probe.d)) > 1) =>
        \E i \in Loudest(Qualifying(probe.d), probe.d) :
            /\ \A j \in Loudest(Qualifying(probe.d), probe.d) : i <= j
            /\ probe.out = HeardAs(i, probe.d)

\* the events the query does not skip: at most 2000 ms old, within radius
NotSkipped(d) ==
    {i \in 1..Len(soundSources) :
        /\ ~(soundSources[i].age > audibleAge)
        /\ ~(d[soundSources[i].position] > soundSources[i].radius)}

\* the tie-break of C33 over the events the query does not skip: of several
\* events of the same greatest effective loudness the first registered wins
C33_FirstOfEqualLoudestHeardWins ==
    (/\ probe.op = "checkSoundDetection"
     /\ Cardinality(Loudest(NotSkipped(probe.d), probe.d)) > 1) =>
        \E i \in Loudest(NotSkipped(probe.d), probe.d) :
            /\ \A j \in Loudest(NotSkipped(probe.d), probe.d) : i <= j
            /\ probe.out = HeardAs(i, probe.d)

\* C34: the investigate and search time-outs measure only the current stay:
\* the tick in which an agent enters Suspicious (resp. Alerted) from another
\* state spends one frame time in that mode, which is no more than 5 s
\* (resp. 10 s), so the agent does not give up investigating (Suspicious
\* with the level reset to 0) nor de-escalate the search (Alerted with the
\* level lowered below 0.7) in that tick
C34_TimeOutsMeasureCurrentStay ==
    [][\A i \in Agents :
          (/\ lastOp'.op = "tick"
           /\ enemies[i].isAlive
           /\ \A dt \in DeltaTimes : dt <= investigateDuration) =>
              /\ (/\ enemies[i].alertState # SUSPICIOUS
                  /\ enemies'[i].alertState = SUSPICIOUS) =>
                     enemies'[i].alertLevel # 0
              /\ (/\ enemies[i].alertState # ALERTED
                  /\ enemies'[i].alertState = ALERTED) =>
                     enemies'[i].alertLevel >= alertedThreshold]_vars

\* the part of C34 that holds: an agent whose timer starts a stay at zero
\* does not time out in the tick that enters the mode
C34_FreshTimerDoesNotTimeOut ==
    [][\A i \in Agents :
          (lastOp'.op = "tick" /\ enemies[i].isAlive) =>
              /\ (/\ enemies[i].alertState # SUSPICIOUS
                  /\ enemies[i].investigateTime = 0
                  /\ enemies'[i].alertState = SUSPICIOUS) =>
                     enemies'[i].alertLevel # 0
              /\ (/\ enemies[i].alertState # ALERTED
                  /\ enemies[i].searchTime = 0
                  /\ enemies'[i].alertState = ALERTED) =>
                     enemies'[i].alertLevel >= alertedThreshold]_vars

\* C35: after every tick the global alert state is at least as high, in the
\* order Idle < Suspicious < Alerted < Combat, as the alertState of every
\* living agent, and it is getStateFromLevel of the global alert level
C35_MostAlertAgentWins ==
    lastOp.op = "tick" =>
        /\ \A i \in Living :
               Rank(globalAlertState) >= Rank(enemies[i].alertState)
        /\ globalAlertState = getStateFromLevel(globalAlertLevel)

\* the part of C35 that holds: it is so after every tick that leaves every
\* agent with the alertState of its alertLevel
C35_MostAlertAgentWinsWhenStatesAreCurrent ==
    (/\ lastOp.op = "tick"
     /\ \A i \in Agents :
            enemies[i].alertState = getStateFromLevel(enemies[i].alertLevel)) =>
        /\ \A i \in Agents :
               Rank(globalAlertState) >= Rank(enemies[i].alertState)
        /\ globalAlertState = getStateFromLevel(globalAlertLevel)

\* C36: a living agent below combat level that gets no stimulus any more
\* has, under continued ticks of positive frame time, eventually alertLevel
\* 0 and alertState Idle, and keeps them for as long as nothing arrives
C36_CalmsDownForGood ==
    <>[](\A i \in Agents :
            enemies[i].isAlive =>
                (enemies[i].alertLevel = 0 /\ enemies[i].alertState = IDLE))

\* an agent that started above level 0 is Idle at level 0 after a tick
C36_Witness ==
    /\ probe.op = "calm"
    /\ probe.level > 0
    /\ lastOp.op = "tick"
    /\ enemies[1].isAlive
    /\ enemies[1].alertLevel = 0
    /\ enemies[1].alertState = IDLE

\* C37: once an agent is dead no operation changes its alertLevel, its
\* alertState or its lastKnownPlayerPos
C37_DeadAgentAlertDataFrozen ==
    [][\A i \in Agents :
          ~enemies[i].isAlive =>
              /\ enemies'[i].alertLevel = enemies[i].alertLevel
              /\ enemies'[i].alertState = enemies[i].alertState
              /\ enemies'[i].lastKnownPlayerPos =
                     enemies[i].lastKnownPlayerPos]_vars

\* the part of C37 that holds: ticks, hits, sound registrations and the
\* aggregation leave a dead agent's alert data alone
C37_DeadAgentFrozenButForAlertAll ==
    [][\A i \in Agents :
          (~enemies[i].isAlive /\ lastOp'.op # "alertAll") =>
              /\ enemies'[i].alertLevel = enemies[i].alertLevel
              /\ enemies'[i].alertState = enemies[i].alertState
              /\ enemies'[i].lastKnownPlayerPos =
                     enemies[i].lastKnownPlayerPos]_vars

\* C38: for every weapon hit on a living enemy the health removed from the
\* enemy is the damage reported in the result of handleEnemyHit: the
\* weapon's damage for a body hit, damage x headshotMultiplier for a
\* headshot (the headshot bonus applied once)
C38_RemovedHealthIsReportedDamage ==
    [][(lastOp'.op = "takeDamage" /\ lastOp'.wasAlive) =>
          /\ enemies[lastOp'.enemy].health - enemies'[lastOp'.enemy].health =
                 lastOp'.amount
          /\ \E w \in CarriedWeapons :
                 lastOp'.amount = handleEnemyHitDamage(w, lastOp'.isHeadshot)]_vars

\* the part of C38 that holds: a body hit removes the weapon's damage, which
\* is the damage reported
C38_BodyHitRemovesReportedDamage ==
    [][(/\ lastOp'.op = "takeDamage"
        /\ lastOp'.wasAlive
        /\ ~lastOp'.isHeadshot) =>
          /\ enemies[lastOp'.enemy].health - enemies'[lastOp'.enemy].health =
                 lastOp'.amount
          /\ \E w \in CarriedWeapons : lastOp'.amount = WeaponDamage(w)]_vars

\* C39: setState changes the state only to a state listed in
\* validTransitions for the current state; a rejected request returns false,
\* leaves currentState, previousState and stateData as they were and
\* notifies no listener; an accepted request returns true, sets
\* previousState to the old state and notifies each listener registered for
\* the new state (or for every state) exactly once, and no other listener
C39_SetStateValidates ==
    (probe.op = "state" /\ probe.call = "setState") =>
        IF probe.newState \in validTransitions(probe.before.currentState)
        THEN /\ probe.ret
             /\ probe.sm.currentState = probe.newState
             /\ probe.sm.previousState = probe.before.currentState
             /\ \A i \in 1..Len(probe.listeners) :
                    Len(probe.notified[i]) =
                        IF \/ probe.listeners[i] = AnyState
                           \/ probe.newState \in probe.listeners[i]
                        THEN 1 ELSE 0
        ELSE /\ ~probe.ret
             /\ probe.sm = probe.before
             /\ \A i \in 1..Len(probe.listeners) : probe.notified[i] = <<>>

\* a request that is not a valid transition was rejected while listeners
\* were registered
C39_Witness ==
    /\ probe.op = "state"
    /\ probe.call = "setState"
    /\ probe.before.currentState = PLAYING
    /\ probe.newState = MISSION_COMPLETE
    /\ Len(probe.listeners) > 0
    /\ ~probe.ret

\* C40: in the game loop started from the menu, MISSION_COMPLETE is entered
\* only after TARGET_ELIMINATED was entered, with the target dead and the
\* living player inside the escape zone; a frame that checks the game
\* conditions with the player dead ends in GAME_OVER, whoever else died in
\* it; and a frame that starts in MISSION_COMPLETE or GAME_OVER runs no
\* agent tick and no aggregation and leaves the state as it is
C40_MissionCompleteInOrder ==
    probe.op = "mission" =>
        /\ \A k \in 1..Len(probe.heard) :
              probe.heard[k].newState = MISSION_COMPLETE =>
                  \E j \in 1..(k - 1) :
                      probe.heard[j].newState = TARGET_ELIMINATED
        /\ (\E k \in 1..Len(probe.heard) :
                probe.heard[k].newState = MISSION_COMPLETE) =>
              /\ probe.sm.currentState = MISSION_COMPLETE
              /\ TargetOf(enemies) # 0
              /\ ~enemies[TargetOf(enemies)].isAlive
              /\ player.isAlive
              /\ probe.inEscapeZone
        /\ (probe.call = "update" /\ probe.ticked /\ ~player.isAlive) =>
              probe.sm.currentState = GAME_OVER
        /\ (probe.call = "update"
              /\ probe.from \in {MISSION_COMPLETE, GAME_OVER}) =>
              (~probe.ticked /\ probe.sm.currentState = probe.from)

\* the target and the player died in the same frame, the player standing
\* in the escape zone, and the game is over
C40_Witness ==
    /\ probe.op = "mission"
    /\ probe.call = "update"
    /\ probe.from = PLAYING
    /\ probe.ticked
    /\ TargetOf(enemies) # 0
    /\ ~enemies[TargetOf(enemies)].isAlive
    /\ ~player.isAlive
    /\ probe.inEscapeZone
    /\ probe.sm.currentState = GAME_OVER

\* the mission was completed and a later frame ran
C40_WitnessComplete ==
    /\ probe.op = "mission"
    /\ probe.call = "update"
    /\ probe.from = MISSION_COMPLETE
    /\ probe.sm.currentState = MISSION_COMPLETE
    /\ Len(probe.heard) = 4

====
